---- MODULE Spec2Model ----
(***************************************************************************)
(* Model of the grid interaction engine <visual-block-grid>                *)
(* (src/src/components/visual-block-grid.ts), the clampGrid utility        *)
(* (src/src/utils/grid.ts) and the part of the provider                    *)
(* (VisualBlockData.handleUIEvent / handleRectUpdate) that applies the     *)
(* engine's intent events.                                                 *)
(*                                                                         *)
(* visual-block-grid.ts holds two revisions of the engine:                 *)
(*   rev = 1 : lines 1-463   (per-item clamp on MOVE, topmost hit-test)    *)
(*   rev = 2 : lines 465-1112 (group clamp on MOVE, selected-first hit)    *)
(* The revision is fixed per behaviour.  The wheel handler is modelled in  *)
(* both revisions too (stack-aware swap, lines 70-137; reinsertion into the *)
(* global z order, lines 534-658).                                         *)
(*                                                                         *)
(* Canvas coordinates are fractions in the source (client / zoom).  They   *)
(* are kept exactly as integers counted in units of 1/Sub pixel; with      *)
(* zoom in {1, 2} every canvas coordinate is a multiple of 1/2 pixel.      *)
(***************************************************************************)
EXTENDS Integers, Sequences, FiniteSets, TLC

VARIABLES
    rev,            \* which revision of the engine runs
    zoom,           \* contextState.zoom
    mode,           \* contextState.mode
    rects,          \* contextState.rects, in Object.values order
    selectedIds,    \* contextState.selectedIds
    ghost,          \* VisualBlockGrid.ghost
    marquee,        \* VisualBlockGrid.marquee
    emitted,        \* ui-events dispatched by the last handler, in order
    lastOp,         \* the handler that ran last
    downMouse,      \* canvas position of the gesture's pointer-down
    lastMouse,      \* canvas position of the last pointer event of the gesture
    everFar,        \* some pointer-move of the gesture was > 2px from its start
    gestureEvents,  \* intent events dispatched since the gesture's pointer-down
    gestureKind,    \* what the last pointer-down started: MARQUEE, MOVE, RESIZE
    commits,        \* rect-updates applied so far
    downMod,        \* ctrl/meta/shift was held at the pointer-down of the
                    \* gesture in progress
    upMod,          \* ctrl/meta/shift was held at the last gesture's pointer-up
    downSelection,  \* selectedIds as the pointer-down of the gesture in
                    \* progress found them
    restacked,      \* a wheel event changed rects since the last pointer-down
    pointers,       \* client positions the pointer visits in this behaviour
    hasGridConfig,  \* contextState.gridConfig is an object (not undefined)
    attached,       \* the element is connected to the document
    listeners,      \* registrations of the engine's handlers: on window for
                    \* mousemove and mouseup, on the element for wheel
    detachedInGesture, \* the element was disconnected since the pointer-down
                    \* of the gesture in progress
    clampIn,        \* input of the clampGrid harness
    clampOut        \* results of successive clampGrid applications

vars == <<rev, zoom, mode, rects, selectedIds, ghost, marquee, emitted, lastOp,
          downMouse, lastMouse, everFar, gestureEvents, gestureKind, commits,
          downMod, upMod, downSelection, restacked, pointers, hasGridConfig,
          attached, listeners, detachedInGesture,
          clampIn, clampOut>>

engineVars == <<rev, zoom, mode, rects, selectedIds, ghost, marquee, emitted,
                lastOp, downMouse, lastMouse, everFar, gestureEvents,
                gestureKind, commits, downMod, upMod, downSelection, restacked,
                pointers, hasGridConfig, attached, listeners,
                detachedInGesture>>

-----------------------------------------------------------------------------
(* Grid configuration: the values of DEFAULT_CONTEXT.gridConfig.            *)

Cols == 36
StepX == 20
StepY == 15
Padding == 50

\* Canvas units per pixel (see the header).
Sub == 2

\* The drag / marquee threshold in pixels.
DragThreshold == 2

\* Half-extent in pixels of the area around a corner where a handle sits.
HandleOffset == 5

\* Number of rect-updates after which no further gesture is started.
MaxCommits == 1

Null == [null |-> TRUE]

Min(a, b) == IF a < b THEN a ELSE b
Max(a, b) == IF a > b THEN a ELSE b
Abs(a) == IF a < 0 THEN -a ELSE a

-----------------------------------------------------------------------------
(* src/src/utils/grid.ts                                                    *)

\* x clamped against the width as given, before the width is clamped
clampGridXFirst(rect, cols) ==
    LET x == Max(0, Min(rect.x, cols - rect.w))
        w == Max(1, Min(rect.w, cols))
        y == Max(0, rect.y)
        h == Max(1, rect.h)
    IN  [x |-> x, y |-> y, w |-> w, h |-> h]

\* no upper limit on the width
clampGridWide(rect, cols) ==
    LET w == Max(1, rect.w)
        x == Max(0, Min(rect.x, cols - w))
        y == Max(0, rect.y)
        h == Max(1, rect.h)
    IN  [x |-> x, y |-> y, w |-> w, h |-> h]

\* x limited on the right only
clampGridNoLeft(rect, cols) ==
    LET w == Max(1, Min(rect.w, cols))
        x == Min(rect.x, cols - w)
        y == Max(0, rect.y)
        h == Max(1, rect.h)
    IN  [x |-> x, y |-> y, w |-> w, h |-> h]

clampGrid(rect, cols) ==
    LET w == Max(1, Min(rect.w, cols))
        x == Max(0, Min(rect.x, cols - w))
        y == Max(0, rect.y)
        h == Max(1, rect.h)
    IN  [x |-> x, y |-> y, w |-> w, h |-> h]

-----------------------------------------------------------------------------
(* Layouts the provider can have loaded (VisualBlockEditor._processLayoutData*)
(* turns layout_lg.positions into rects, in positions order).               *)

R(id, x, y, w, h, z) == [id |-> id, x |-> x, y |-> y, w |-> w, h |-> h, z |-> z]

LayoutOverlap == << R("A", 2, 2, 4, 2, 1), R("B", 4, 3, 4, 3, 2) >>
LayoutSpread == << R("A", 0, 0, 10, 2, 0), R("B", 30, 1, 4, 2, 0) >>

\* What a behaviour starts from: the loaded layout, the zoom level and the
\* client positions (pixels relative to the host's bounding box) the pointer
\* visits.
Scenario(layout, z, points) == [rects |-> layout, zoom |-> z, pointers |-> points]

Scenarios == {
    \* clicks and sub-threshold / supra-threshold drags on an overlapping pair
    Scenario(LayoutOverlap, 1,
             {<<95, 85>>, <<97, 85>>, <<98, 85>>, <<95, 88>>, <<135, 100>>,
              <<55, 55>>}),
    \* fractions of a grid step either side of one half
    Scenario(LayoutOverlap, 1,
             {<<95, 85>>, <<105, 85>>, <<104, 85>>, <<84, 85>>, <<95, 92>>,
              <<95, 93>>}),
    \* drags beyond the left, top and right edge of the grid
    Scenario(LayoutSpread, 1,
             {<<55, 55>>, <<155, 55>>, <<655, 70>>, <<755, 70>>, <<15, 40>>}),
    \* the four corners of A, and far away positions
    Scenario(LayoutOverlap, 1,
             {<<90, 80>>, <<170, 110>>, <<170, 80>>, <<90, 110>>, <<15, 40>>,
              <<755, 145>>}),
    \* zoomed in: half pixels
    Scenario(LayoutOverlap, 2,
             {<<190, 170>>, <<194, 170>>, <<195, 170>>, <<210, 170>>,
              <<209, 170>>, <<270, 200>>})
}

LayoutCovered == << R("A", 2, 2, 4, 2, 1), R("B", 2, 2, 4, 2, 2) >>

\* clicks on rects, on stacks of two rects and on the background
ScenariosSelect == {
    Scenario(LayoutOverlap, 1,
             {<<95, 85>>, <<97, 85>>, <<98, 85>>, <<95, 88>>, <<135, 100>>,
              <<55, 55>>}),
    Scenario(LayoutCovered, 1, {<<100, 90>>, <<102, 90>>, <<55, 55>>}),
    Scenario(LayoutCovered, 2, {<<200, 180>>, <<203, 180>>, <<110, 110>>})
}

LayoutResize == << R("A", 5, 5, 4, 4, 0) >>

\* resizes from the corners: shrinking, shrinking past width 1, growing, and
\* growing past the left and top edge of the grid
ScenariosResize == {
    Scenario(LayoutResize, 1,
             {<<150, 125>>, <<190, 155>>, <<270, 215>>, <<110, 95>>,
              <<10, 20>>}),
    Scenario(LayoutOverlap, 1,
             {<<90, 80>>, <<170, 110>>, <<170, 80>>, <<90, 110>>, <<15, 40>>,
              <<755, 145>>})
}

LayoutMarquee == << R("A", 0, 0, 2, 2, 0), R("B", 5, 5, 2, 2, 0) >>

\* marquees over one rect, over both, touching an edge, and of 2 and 2.5
\* canvas pixels
ScenariosMarquee == {
    Scenario(LayoutMarquee, 1,
             {<<45, 45>>, <<47, 45>>, <<60, 60>>, <<90, 45>>, <<100, 60>>,
              <<160, 140>>}),
    Scenario(LayoutMarquee, 2,
             {<<90, 90>>, <<94, 90>>, <<95, 90>>, <<130, 130>>})
}

LayoutStack == << R("A", 0, 0, 4, 4, 0), R("B", 2, 2, 4, 4, 1),
                  R("C", 3, 3, 4, 4, 2), R("D", 20, 0, 2, 2, 1) >>

\* a stack of three rects and a rect apart; presses on a cell of A only, of B
\* only, of C only and of D
ScenariosStack == {
    Scenario(LayoutStack, 1,
             {<<55, 55>>, <<95, 115>>, <<175, 145>>, <<455, 55>>})
}

Dirs == {"nw", "ne", "sw", "se"}

-----------------------------------------------------------------------------
(* Snapshot access                                                          *)

RectIds(rs) == {rs[i].id : i \in DOMAIN rs}

HasRect(rs, id) == id \in RectIds(rs)

\* rects[id]
RectOf(rs, id) == rs[CHOOSE i \in DOMAIN rs : rs[i].id = id]

\* array.includes(id)
Includes(seq, id) == \E i \in DOMAIN seq : seq[i] = id

\* array.filter(e => e !== id)
Without(seq, id) == SelectSeq(seq, LAMBDA e : e # id)

\* array.findIndex, 1-based; 0 when absent
FindIndex(seq, id) ==
    IF \E i \in DOMAIN seq : seq[i].id = id
    THEN CHOOSE i \in DOMAIN seq :
            /\ seq[i].id = id
            /\ \A j \in 1..(i - 1) : seq[j].id # id
    ELSE 0

-----------------------------------------------------------------------------
(* Coordinate conversions                                                   *)

\* getMouseCoords: (client - origin) / zoom, in canvas units
getMouseCoords(cx, cy) ==
    [x |-> (cx * Sub) \div zoom, y |-> (cy * Sub) \div zoom]

\* getGridCoords: Math.floor((x - padding) / step)
getGridCoords(x, y) ==
    [gridX |-> (x - Padding * Sub) \div (StepX * Sub),
     gridY |-> (y - Padding * Sub) \div (StepY * Sub)]

\* Math.floor in place of Math.round
RoundDivFloor(delta, step) == delta \div (step * Sub)

\* Math.round(delta / step): nearest integer, halves towards +infinity
RoundDiv(delta, step) == (2 * delta + step * Sub) \div (2 * step * Sub)

\* >= in place of >
BeyondThresholdIncl(delta) == Abs(delta) >= DragThreshold * Sub

\* Math.abs(delta) > 2
BeyondThreshold(delta) == Abs(delta) > DragThreshold * Sub

-----------------------------------------------------------------------------
(* Hit-testing                                                              *)

\* position of r in a list sorted by descending z: behind every entry whose z
\* is >= r.z (Array.prototype.sort is stable)
InsertDesc(acc, r) ==
    LET k == Cardinality({i \in DOMAIN acc : acc[i].z >= r.z})
    IN  SubSeq(acc, 1, k) \o <<r>> \o SubSeq(acc, k + 1, Len(acc))

RECURSIVE SortDescFrom(_, _)
SortDescFrom(s, acc) ==
    IF s = <<>> THEN acc ELSE SortDescFrom(Tail(s), InsertDesc(acc, Head(s)))

\* .sort((a, b) => (b.z || 0) - (a.z || 0))
SortDescZ(s) == SortDescFrom(s, <<>>)

Contains(r, gx, gy) ==
    gx >= r.x /\ gx < r.x + r.w /\ gy >= r.y /\ gy < r.y + r.h

\* Object.values(rects).filter(contains cell).sort(descending z)
hitRects(rs, gx, gy) ==
    SortDescZ(SelectSeq(rs, LAMBDA r : Contains(r, gx, gy)))

-----------------------------------------------------------------------------
(* Provider: VisualBlockData.handleUIEvent / handleRectUpdate               *)

PatchOne(layout, u) ==
    LET i == FindIndex(layout, u.id)
    IN  IF i = 0 THEN layout
        ELSE [layout EXCEPT ![i] = [@ EXCEPT !.x = u.rect.x, !.y = u.rect.y,
                                             !.w = u.rect.w, !.h = u.rect.h,
                                             !.z = u.rect.z]]

\* the patches behind one with an unknown id are dropped
RECURSIVE handleRectUpdateUntilUnknown(_, _)
handleRectUpdateUntilUnknown(layout, updates) ==
    IF updates = <<>> THEN layout
    ELSE IF FindIndex(layout, Head(updates).id) = 0 THEN layout
    ELSE handleRectUpdateUntilUnknown(PatchOne(layout, Head(updates)),
                                      Tail(updates))

RECURSIVE handleRectUpdate(_, _)
handleRectUpdate(layout, updates) ==
    IF updates = <<>> THEN layout
    ELSE handleRectUpdate(PatchOne(layout, Head(updates)), Tail(updates))

SelectionChange(ids) == [type |-> "selection-change", payload |-> ids]
RectUpdate(updates) == [type |-> "rect-update", payload |-> updates]

RECURSIVE SelAfter(_, _)
SelAfter(sel, evs) ==
    IF evs = <<>> THEN sel
    ELSE SelAfter(IF Head(evs).type = "selection-change"
                  THEN Head(evs).payload ELSE sel, Tail(evs))

RECURSIVE RectsAfter(_, _)
RectsAfter(rs, evs) ==
    IF evs = <<>> THEN rs
    ELSE RectsAfter(IF Head(evs).type = "rect-update"
                    THEN handleRectUpdate(rs, Head(evs).payload) ELSE rs,
                    Tail(evs))

NumRectUpdates(evs) ==
    Cardinality({i \in DOMAIN evs : evs[i].type = "rect-update"})

\* dispatchUiEvent for every event of evs, each handled synchronously by the
\* provider; the republished snapshot reaches the engine before the next event
Dispatch(evs) ==
    /\ emitted' = evs
    /\ selectedIds' = SelAfter(selectedIds, evs)
    /\ rects' = RectsAfter(rects, evs)
    /\ commits' = commits + NumRectUpdates(evs)

-----------------------------------------------------------------------------
(* Ghost geometry                                                           *)

\* { ...orig, ...constrained }
Merge(orig, c) == [orig EXCEPT !.x = c.x, !.y = c.y, !.w = c.w, !.h = c.h]

\* the delta applied to the previous frame's rect
MoveItemCumulative(item, gdx, gdy, cols) ==
    LET cur == item.currentRect
    IN  [item EXCEPT !.currentRect =
            Merge(cur, clampGrid([x |-> cur.x + gdx, y |-> cur.y + gdy,
                                  w |-> cur.w, h |-> cur.h], cols))]

\* the rect is read again from the snapshot at every pointer-move
MoveItemLive(item, gdx, gdy, cols) ==
    LET orig == IF HasRect(rects, item.id) THEN RectOf(rects, item.id)
                ELSE item.originalRect
    IN  [item EXCEPT !.currentRect =
            Merge(orig, clampGrid([x |-> orig.x + gdx, y |-> orig.y + gdy,
                                   w |-> orig.w, h |-> orig.h], cols))]

\* revision 1, MOVE: every item's original rect shifted and clamped on its own
MoveItem(item, gdx, gdy, cols) ==
    LET orig == item.originalRect
    IN  [item EXCEPT !.currentRect =
            Merge(orig, clampGrid([x |-> orig.x + gdx, y |-> orig.y + gdy,
                                   w |-> orig.w, h |-> orig.h], cols))]

MoveItems(items, gdx, gdy, cols) ==
    [i \in DOMAIN items |-> MoveItem(items[i], gdx, gdy, cols)]

SetMin(S) == CHOOSE a \in S : \A b \in S : a <= b
SetMax(S) == CHOOSE a \in S : \A b \in S : a >= b

\* revision 2, MOVE: the delta is clamped against the group's bounding box
\* and applied unclamped to every item (no item: the loops do nothing)
GroupDelta(items, gdx, gdy, cols) ==
    LET O == {items[i].originalRect : i \in DOMAIN items}
        minX == SetMin({o.x : o \in O})
        minY == SetMin({o.y : o \in O})
        maxX == SetMax({o.x + o.w : o \in O})
        dx1 == IF minX + gdx < 0 THEN -minX ELSE gdx
        dx2 == IF maxX + dx1 > cols THEN cols - maxX ELSE dx1
        dy1 == IF minY + gdy < 0 THEN -minY ELSE gdy
    IN  [dx |-> dx2, dy |-> dy1]

\* every item clamped on its own, as in revision 1
MoveGroupPerItem(items, gdx, gdy, cols) == MoveItems(items, gdx, gdy, cols)

MoveGroup(items, gdx, gdy, cols) ==
    IF items = <<>> THEN items
    ELSE LET d == GroupDelta(items, gdx, gdy, cols)
         IN  [i \in DOMAIN items |->
                [items[i] EXCEPT !.currentRect =
                    [items[i].originalRect EXCEPT !.x = @ + d.dx, !.y = @ + d.dy]]]

HasE(dir) == dir \in {"ne", "se"}
HasW(dir) == dir \in {"nw", "sw"}
HasS(dir) == dir \in {"sw", "se"}
HasN(dir) == dir \in {"nw", "ne"}

\* the west and north edges follow the pointer without a limit
ResizeCandidateUncapped(orig, dir, gdx, gdy) ==
    LET newW == IF HasE(dir) THEN Max(1, orig.w + gdx)
                ELSE IF HasW(dir) THEN orig.w - gdx ELSE orig.w
        newX == IF ~HasE(dir) /\ HasW(dir) THEN orig.x + gdx ELSE orig.x
        newH == IF HasS(dir) THEN Max(1, orig.h + gdy)
                ELSE IF HasN(dir) THEN orig.h - gdy ELSE orig.h
        newY == IF ~HasS(dir) /\ HasN(dir) THEN orig.y + gdy ELSE orig.y
    IN  [x |-> newX, y |-> newY, w |-> newW, h |-> newH]

\* RESIZE: the candidate rect before clamping
ResizeCandidate(orig, dir, gdx, gdy) ==
    LET diffX == Min(orig.w - 1, gdx)
        diffY == Min(orig.h - 1, gdy)
        newW == IF HasE(dir) THEN Max(1, orig.w + gdx)
                ELSE IF HasW(dir) THEN orig.w - diffX ELSE orig.w
        newX == IF ~HasE(dir) /\ HasW(dir) THEN orig.x + diffX ELSE orig.x
        newH == IF HasS(dir) THEN Max(1, orig.h + gdy)
                ELSE IF HasN(dir) THEN orig.h - diffY ELSE orig.h
        newY == IF ~HasS(dir) /\ HasN(dir) THEN orig.y + diffY ELSE orig.y
    IN  [x |-> newX, y |-> newY, w |-> newW, h |-> newH]

ResizeItem(item, dir, gdx, gdy, cols) ==
    [item EXCEPT !.currentRect =
        Merge(item.originalRect,
              clampGrid(ResizeCandidate(item.originalRect, dir, gdx, gdy), cols))]

\* index of ghost.items[id], 0 when there is none
ItemIndex(items, id) == FindIndex(items, id)

-----------------------------------------------------------------------------
(* _handleGridMouseDown                                                     *)

\* pixel position (canvas units) of the corner of r a handle is attached to
CornerX(r, dir) == (Padding + (IF HasE(dir) THEN r.x + r.w ELSE r.x) * StepX) * Sub
CornerY(r, dir) == (Padding + (IF HasS(dir) THEN r.y + r.h ELSE r.y) * StepY) * Sub

\* render(): handles exist on the only selected rect; the pointer is on one
OnHandle(m, dir) ==
    /\ Len(selectedIds) = 1
    /\ HasRect(rects, selectedIds[1])
    /\ Abs(m.x - CornerX(RectOf(rects, selectedIds[1]), dir)) <= HandleOffset * Sub
    /\ Abs(m.y - CornerY(RectOf(rects, selectedIds[1]), dir)) <= HandleOffset * Sub

\* the rect with the lowest z is grabbed
PrimaryHitLowest(gx, gy) ==
    LET hit == hitRects(rects, gx, gy)
    IN  IF hit = <<>> THEN "" ELSE hit[Len(hit)].id

\* step 2 of the hit-test: the id a click on cell (gx, gy) grabs, "" if none
PrimaryHit(gx, gy) ==
    LET hit == hitRects(rects, gx, gy)
        sel == SelectSeq(hit, LAMBDA r : Includes(selectedIds, r.id))
    IN  IF hit = <<>> THEN ""
        ELSE IF rev = 2 /\ sel # <<>> THEN sel[1].id
        ELSE hit[1].id

\* the modifier keys are not looked at on a rect body
NewSelectionReplace(type, primary, mod) ==
    IF type = "MOVE" THEN
        IF ~Includes(selectedIds, primary) THEN <<primary>> ELSE selectedIds
    ELSE IF type = "RESIZE" THEN <<primary>>
    ELSE IF ~mod THEN <<>> ELSE selectedIds

\* the selection is kept on a press on the background
NewSelectionKeep(type, primary, mod) ==
    IF type = "MOVE" THEN
        IF mod THEN
            IF Includes(selectedIds, primary) THEN Without(selectedIds, primary)
            ELSE Append(selectedIds, primary)
        ELSE IF ~Includes(selectedIds, primary) THEN <<primary>>
        ELSE selectedIds
    ELSE IF type = "RESIZE" THEN <<primary>>
    ELSE selectedIds

NewSelection(type, primary, mod) ==
    IF type = "MOVE" THEN
        IF mod THEN
            IF Includes(selectedIds, primary) THEN Without(selectedIds, primary)
            ELSE Append(selectedIds, primary)
        ELSE IF ~Includes(selectedIds, primary) THEN <<primary>>
        ELSE selectedIds
    ELSE IF type = "RESIZE" THEN <<primary>>
    ELSE IF ~mod THEN <<>> ELSE selectedIds

GhostItems(newSelection) ==
    LET ids == SelectSeq(newSelection, LAMBDA id : HasRect(rects, id))
    IN  [i \in DOMAIN ids |-> [id |-> ids[i],
                               originalRect |-> RectOf(rects, ids[i]),
                               currentRect |-> RectOf(rects, ids[i])]]

\* every handler is entered whatever the mode is
IsDesignModeAlways == TRUE

\* the negation of the guard mode !== 'design' of pointer-down and wheel
IsDesignMode == mode = "design"

MouseDown(cx, cy, mod, handle) ==
    /\ commits < MaxCommits
    /\ IF ~IsDesignMode
       THEN /\ lastOp' = "downIgnored"
            /\ emitted' = <<>>
            /\ UNCHANGED <<rects, selectedIds, commits, ghost, marquee,
                           downMouse, lastMouse, everFar, gestureEvents,
                           gestureKind, downMod, upMod, downSelection,
                           restacked, detachedInGesture>>
       ELSE IF ~hasGridConfig
       THEN \* getGridCoords destructures an undefined gridConfig: TypeError
            /\ lastOp' = "downFault"
            /\ emitted' = <<>>
            /\ UNCHANGED <<rects, selectedIds, commits, ghost, marquee,
                           downMouse, lastMouse, everFar, gestureEvents,
                           gestureKind, downMod, upMod, downSelection,
                           restacked, detachedInGesture>>
       ELSE LET m == getMouseCoords(cx, cy)
                g == getGridCoords(m.x, m.y)
                onHandle == handle # "none"
                primary == IF onHandle THEN selectedIds[1]
                           ELSE PrimaryHit(g.gridX, g.gridY)
                type == IF onHandle THEN "RESIZE"
                        ELSE IF primary # "" THEN "MOVE" ELSE "MARQUEE"
                newSelection == NewSelection(type, primary, mod)
                evs == <<SelectionChange(newSelection)>>
            IN  /\ handle # "none" => OnHandle(m, handle)
                /\ Dispatch(evs)
                /\ IF type = "MARQUEE"
                   THEN /\ ghost' = Null
                        /\ marquee' = [x1 |-> m.x, y1 |-> m.y,
                                       x2 |-> m.x, y2 |-> m.y]
                   ELSE /\ ghost' = [primaryId |-> primary,
                                     originalSelectedIds |-> selectedIds,
                                     type |-> type,
                                     resizeDir |-> handle,
                                     startMouse |-> m,
                                     items |-> GhostItems(newSelection),
                                     wasDragged |-> FALSE]
                        /\ marquee' = Null
                /\ lastOp' = "down"
                /\ downMouse' = m
                /\ lastMouse' = m
                /\ everFar' = FALSE
                /\ gestureEvents' = Len(evs)
                /\ gestureKind' = type
                /\ downMod' = mod
                /\ upMod' = FALSE
                /\ downSelection' = selectedIds
                /\ restacked' = FALSE
                /\ detachedInGesture' = FALSE
    /\ UNCHANGED <<rev, zoom, mode, pointers, hasGridConfig, attached,
                   listeners, clampIn, clampOut>>

-----------------------------------------------------------------------------
(* _handleWindowMouseMove                                                   *)

\* the ghost items are the rect objects of the snapshot themselves: what the
\* handler writes into an item shows in rects
SnapshotRectsAliased(rs, items) ==
    handleRectUpdate(rs, [i \in DOMAIN items |->
                             [id |-> items[i].id, rect |-> items[i].currentRect]])

\* contextState.rects after the handler has written the ghost items:
\* originalRect and currentRect are spread copies ({ ...rects[id] }) and
\* currentRect is replaced by a new object, so the snapshot is as it was
SnapshotRects(rs, items) == rs

\* the marquee restarted at the pointer
UpdateMarqueeAnchor(mq, m) == [x1 |-> m.x, y1 |-> m.y, x2 |-> m.x, y2 |-> m.y]

\* { ...this.marquee, x2: x, y2: y }
UpdateMarquee(mq, m) == [mq EXCEPT !.x2 = m.x, !.y2 = m.y]

MouseMove(cx, cy) ==
    LET m == getMouseCoords(cx, cy)
    IN
    /\ emitted' = <<>>
    /\ IF marquee # Null
       THEN /\ marquee' = UpdateMarquee(marquee, m)
            /\ lastOp' = "move"
            /\ lastMouse' = m
            /\ everFar' = (everFar \/ Abs(m.x - downMouse.x) > 2 * Sub
                                   \/ Abs(m.y - downMouse.y) > 2 * Sub)
            /\ UNCHANGED <<ghost, rects>>
       ELSE IF ghost = Null
       THEN /\ lastOp' = "moveIdle"
            /\ UNCHANGED <<ghost, rects, marquee, lastMouse, everFar>>
       ELSE IF ~hasGridConfig
       THEN \* gridConfig.stepX on an undefined gridConfig: TypeError, after
            \* wasDragged was written
            /\ ghost' = [ghost EXCEPT !.wasDragged =
                            (ghost.wasDragged
                             \/ BeyondThreshold(m.x - ghost.startMouse.x)
                             \/ BeyondThreshold(m.y - ghost.startMouse.y))]
            /\ lastOp' = "moveFault"
            /\ lastMouse' = m
            /\ everFar' = (everFar \/ Abs(m.x - downMouse.x) > 2 * Sub
                                   \/ Abs(m.y - downMouse.y) > 2 * Sub)
            /\ UNCHANGED <<rects, marquee>>
       ELSE LET deltaX == m.x - ghost.startMouse.x
                deltaY == m.y - ghost.startMouse.y
                dragged == ghost.wasDragged \/ BeyondThreshold(deltaX)
                                            \/ BeyondThreshold(deltaY)
                gdx == RoundDiv(deltaX, StepX)
                gdy == RoundDiv(deltaY, StepY)
                k == ItemIndex(ghost.items, ghost.primaryId)
                items == IF ghost.type = "MOVE"
                         THEN IF rev = 1
                              THEN MoveItems(ghost.items, gdx, gdy, Cols)
                              ELSE MoveGroup(ghost.items, gdx, gdy, Cols)
                         ELSE IF k = 0 THEN ghost.items
                         ELSE [ghost.items EXCEPT ![k] =
                                 ResizeItem(@, ghost.resizeDir, gdx, gdy, Cols)]
            IN  /\ ghost' = [ghost EXCEPT !.wasDragged = dragged, !.items = items]
                /\ rects' = SnapshotRects(rects, items)
                /\ lastOp' = IF ghost.type = "RESIZE" /\ k = 0
                             THEN "moveFault" ELSE "move"
                /\ lastMouse' = m
                /\ everFar' = (everFar \/ Abs(m.x - downMouse.x) > 2 * Sub
                                       \/ Abs(m.y - downMouse.y) > 2 * Sub)
                /\ UNCHANGED marquee
    /\ UNCHANGED <<rev, zoom, mode, selectedIds, commits, downMouse,
                   gestureEvents, gestureKind, downMod, upMod, downSelection,
                   restacked, pointers, hasGridConfig, attached, listeners,
                   detachedInGesture, clampIn, clampOut>>

-----------------------------------------------------------------------------
(* _handleWindowMouseUp                                                     *)

\* boxes that share an edge count as overlapping
IntersectsTouching(r, left, top, width, height) ==
    LET rLeft == (Padding + r.x * StepX) * Sub
        rTop == (Padding + r.y * StepY) * Sub
        rRight == rLeft + r.w * StepX * Sub
        rBottom == rTop + r.h * StepY * Sub
    IN  /\ rLeft <= left + width
        /\ rRight >= left
        /\ rTop <= top + height
        /\ rBottom >= top

\* the rect's pixel box strictly overlaps the marquee box
Intersects(r, left, top, width, height) ==
    LET rLeft == (Padding + r.x * StepX) * Sub
        rTop == (Padding + r.y * StepY) * Sub
        rRight == rLeft + r.w * StepX * Sub
        rBottom == rTop + r.h * StepY * Sub
    IN  /\ rLeft < left + width
        /\ rRight > left
        /\ rTop < top + height
        /\ rBottom > top

\* forEach: push r.id unless already included
RECURSIVE PushNew(_, _)
PushNew(acc, ids) ==
    IF ids = <<>> THEN acc
    ELSE PushNew(IF Includes(acc, Head(ids)) THEN acc ELSE Append(acc, Head(ids)),
                 Tail(ids))

MarqueeEvents(mod) ==
    LET left == Min(marquee.x1, marquee.x2)
        top == Min(marquee.y1, marquee.y2)
        width == Abs(marquee.x1 - marquee.x2)
        height == Abs(marquee.y1 - marquee.y2)
        base == IF mod THEN selectedIds ELSE <<>>
        hit == SelectSeq(rects, LAMBDA r : Intersects(r, left, top, width, height))
        hitIds == [i \in DOMAIN hit |-> hit[i].id]
    IN  IF BeyondThreshold(width) \/ BeyondThreshold(height)
        THEN <<SelectionChange(PushNew(base, hitIds))>>
        ELSE <<>>

\* only the primary item is committed
UpdatesPrimaryOnly(items) ==
    LET one == SelectSeq(items, LAMBDA it : it.id = ghost.primaryId)
    IN  [i \in DOMAIN one |-> [id |-> one[i].id, rect |-> one[i].currentRect]]

\* ghost.items -> [{ id, rect: currentRect }]
Updates(items) ==
    [i \in DOMAIN items |-> [id |-> items[i].id, rect |-> items[i].currentRect]]

\* the click cycles whether or not the rect was selected before it
ClickEventsAlwaysCycle(mod) ==
    LET g == getGridCoords(ghost.startMouse.x, ghost.startMouse.y)
        hit == hitRects(rects, g.gridX, g.gridY)
        next == (FindIndex(hit, ghost.primaryId) % Len(hit)) + 1
    IN  IF hit # <<>>
        THEN IF ~mod THEN <<SelectionChange(<<hit[next].id>>)>> ELSE <<>>
        ELSE IF ~mod THEN <<SelectionChange(<<>>)>> ELSE <<>>

ClickEvents(mod) ==
    LET g == getGridCoords(ghost.startMouse.x, ghost.startMouse.y)
        hit == hitRects(rects, g.gridX, g.gridY)
        next == (FindIndex(hit, ghost.primaryId) % Len(hit)) + 1
    IN  IF hit # <<>>
        THEN IF ~mod /\ Includes(ghost.originalSelectedIds, ghost.primaryId)
             THEN <<SelectionChange(<<hit[next].id>>)>>
             ELSE <<>>
        ELSE IF ~mod THEN <<SelectionChange(<<>>)>> ELSE <<>>

\* the RESIZE commit not restricted to RESIZE ghosts
GhostEventsTwice(mod) ==
    IF ghost.type = "MOVE"
    THEN IF ~ghost.wasDragged THEN ClickEvents(mod)
         ELSE <<RectUpdate(Updates(ghost.items)), RectUpdate(Updates(ghost.items))>>
    ELSE IF ghost.wasDragged THEN <<RectUpdate(Updates(ghost.items))>>
    ELSE <<>>

GhostEvents(mod) ==
    IF ghost.type = "MOVE"
    THEN IF ~ghost.wasDragged THEN ClickEvents(mod)
         ELSE <<RectUpdate(Updates(ghost.items))>>
    ELSE IF ghost.wasDragged THEN <<RectUpdate(Updates(ghost.items))>>
    ELSE <<>>

\* the ghost left in place
KeptGhost == ghost

\* this.ghost = null, the last statement of the handler
ClearedGhost == Null

\* the handler reads gridConfig.padding / stepX / stepY on the way it takes:
\* with a marquee, and on a click of a MOVE ghost (getGridCoords)
UpNeedsGridConfig ==
    \/ marquee # Null
    \/ ghost # Null /\ ghost.type = "MOVE" /\ ~ghost.wasDragged

MouseUp(mod) ==
    /\ IF ~hasGridConfig /\ UpNeedsGridConfig
       THEN \* destructuring an undefined gridConfig: TypeError before any
            \* assignment; the ghost and the marquee stay
            /\ Dispatch(<<>>)
            /\ lastOp' = "upFault"
            /\ UNCHANGED <<ghost, marquee, gestureEvents, upMod, downMod,
                           downSelection, detachedInGesture>>
       ELSE IF marquee # Null
       THEN /\ Dispatch(MarqueeEvents(mod))
            /\ gestureEvents' = gestureEvents + Len(MarqueeEvents(mod))
            /\ marquee' = Null
            /\ ghost' = Null
            /\ lastOp' = "up"
            /\ upMod' = mod
            /\ downMod' = FALSE
            /\ downSelection' = <<>>
            /\ detachedInGesture' = FALSE
       ELSE IF ghost = Null
       THEN /\ Dispatch(<<>>)
            /\ lastOp' = "upIdle"
            /\ UNCHANGED <<ghost, marquee, gestureEvents, upMod, downMod,
                           downSelection, detachedInGesture>>
       ELSE /\ Dispatch(GhostEvents(mod))
            /\ gestureEvents' = gestureEvents + Len(GhostEvents(mod))
            /\ ghost' = ClearedGhost
            /\ lastOp' = "up"
            /\ upMod' = mod
            /\ downMod' = FALSE
            /\ downSelection' = <<>>
            /\ detachedInGesture' = FALSE
            /\ UNCHANGED marquee
    /\ UNCHANGED <<rev, zoom, mode, downMouse, lastMouse, everFar, gestureKind,
                   restacked, pointers, hasGridConfig, attached, listeners,
                   clampIn, clampOut>>

-----------------------------------------------------------------------------
(* _handleWheel                                                             *)

\* position of r in a list sorted by ascending z: behind every entry whose z
\* is <= r.z
InsertAsc(acc, r) ==
    LET k == Cardinality({i \in DOMAIN acc : acc[i].z <= r.z})
    IN  SubSeq(acc, 1, k) \o <<r>> \o SubSeq(acc, k + 1, Len(acc))

RECURSIVE SortAscFrom(_, _)
SortAscFrom(s, acc) ==
    IF s = <<>> THEN acc ELSE SortAscFrom(Tail(s), InsertAsc(acc, Head(s)))

\* .sort((a, b) => (a.z || 0) - (b.z || 0))
SortAscZ(s) == SortAscFrom(s, <<>>)

\* the cell ranges of r and the anchor intersect
Overlaps(r, a) ==
    r.x < a.x + a.w /\ r.x + r.w > a.x /\ r.y < a.y + a.h /\ r.y + r.h > a.y

\* the rects intersecting the anchor, lowest z first
stackRects(rs, anchor) ==
    SortAscZ(SelectSeq(rs, LAMBDA r : Overlaps(r, anchor)))

selectedInStack(stack, sel) ==
    SelectSeq(stack, LAMBDA r : Includes(sel, r.id))

ZPatch(r, z) == [id |-> r.id, rect |-> [r EXCEPT !.z = z]]

\* revision 1, wheel down: the selected rects of the stack rise above the
\* target, the target takes the lowest selected z
SwapForward(inStack, target) ==
    LET lowestSelectedZ == inStack[1].z
        shift == Max(1, (target.z - lowestSelectedZ) + 1)
    IN  [i \in DOMAIN inStack |-> ZPatch(inStack[i], inStack[i].z + shift)]
        \o <<ZPatch(target, lowestSelectedZ)>>

\* the lowered z is not held at 0
SwapBackwardUnclamped(inStack, target) ==
    LET highestSelectedZ == inStack[Len(inStack)].z
        shift == Max(1, (highestSelectedZ - target.z) + 1)
    IN  [i \in DOMAIN inStack |-> ZPatch(inStack[i], inStack[i].z - shift)]
        \o <<ZPatch(target, highestSelectedZ)>>

\* revision 1, wheel up: the selected rects of the stack sink below the
\* target, the target takes the highest selected z
SwapBackward(inStack, target) ==
    LET highestSelectedZ == inStack[Len(inStack)].z
        shift == Max(1, (highestSelectedZ - target.z) + 1)
    IN  [i \in DOMAIN inStack |->
            ZPatch(inStack[i], Max(0, inStack[i].z - shift))]
        \o <<ZPatch(target, highestSelectedZ)>>

\* the rects are taken in collection order, not sorted by z
ReinsertUnsorted(rs, sel, target, forward) ==
    LET selectionGroup == SelectSeq(rs, LAMBDA r : Includes(sel, r.id))
        everythingElse == SelectSeq(rs, LAMBDA r : ~Includes(sel, r.id))
        insertionPoint == FindIndex(everythingElse, target.id)
        cut == IF forward THEN insertionPoint ELSE insertionPoint - 1
        finalOrder == SubSeq(everythingElse, 1, cut) \o selectionGroup
                      \o SubSeq(everythingElse, cut + 1, Len(everythingElse))
    IN  [i \in DOMAIN finalOrder |-> ZPatch(finalOrder[i], i - 1)]

\* revision 2: all selected rects leave the global z order and re-enter it
\* right behind (forward) or right before (backward) the target; every rect
\* gets its index as z
Reinsert(rs, sel, target, forward) ==
    LET globalSorted == SortAscZ(rs)
        selectionGroup == SelectSeq(globalSorted, LAMBDA r : Includes(sel, r.id))
        everythingElse == SelectSeq(globalSorted, LAMBDA r : ~Includes(sel, r.id))
        insertionPoint == FindIndex(everythingElse, target.id)
        cut == IF forward THEN insertionPoint ELSE insertionPoint - 1
        finalOrder == SubSeq(everythingElse, 1, cut) \o selectionGroup
                      \o SubSeq(everythingElse, cut + 1, Len(everythingElse))
    IN  [i \in DOMAIN finalOrder |-> ZPatch(finalOrder[i], i - 1)]

\* the updates array of a wheel event when the selection is sel (non-empty)
WheelUpdatesOf(sel, isIncreasing) ==
    LET anchorId == sel[1]
        stack == stackRects(rects, RectOf(rects, anchorId))
        inStack == selectedInStack(stack, sel)
        highestIdx == FindIndex(stack, inStack[Len(inStack)].id)
        lowestIdx == FindIndex(stack, inStack[1].id)
    IN  IF ~HasRect(rects, anchorId) THEN <<>>
        ELSE IF inStack = <<>> THEN <<>>
        ELSE IF isIncreasing
        THEN IF highestIdx < Len(stack)
             THEN IF rev = 1
                  THEN SwapForward(inStack, stack[highestIdx + 1])
                  ELSE Reinsert(rects, sel, stack[highestIdx + 1], TRUE)
             ELSE <<>>
        ELSE IF lowestIdx > 1
             THEN IF rev = 1
                  THEN SwapBackward(inStack, stack[lowestIdx - 1])
                  ELSE Reinsert(rects, sel, stack[lowestIdx - 1], FALSE)
             ELSE <<>>

\* the updates array of a wheel event with a non-empty selection
WheelUpdates(isIncreasing) == WheelUpdatesOf(selectedIds, isIncreasing)

\* one rect-update per entry of the updates array
WheelEventsPerItem(updates) ==
    [i \in DOMAIN updates |-> RectUpdate(<<updates[i]>>)]

\* if (updates.length) dispatchUiEvent('rect-update', updates)
WheelEvents(updates) ==
    IF updates # <<>> THEN <<RectUpdate(updates)>> ELSE <<>>

\* the handler itself
WheelStep(isIncreasing) ==
    /\ IF ~IsDesignMode \/ selectedIds = <<>>
       THEN /\ Dispatch(<<>>)
            /\ lastOp' = "wheelIdle"
            /\ UNCHANGED restacked
       ELSE LET evs == WheelEvents(WheelUpdates(isIncreasing))
            IN  /\ Dispatch(evs)
                /\ lastOp' = IF evs = <<>> THEN "wheelIdle" ELSE "wheel"
                /\ restacked' = (restacked \/ evs # <<>>)
    /\ UNCHANGED <<rev, zoom, mode, ghost, marquee, downMouse, lastMouse,
                   everFar, gestureEvents, gestureKind, downMod, upMod,
                   downSelection, pointers, hasGridConfig, attached,
                   listeners, detachedInGesture, clampIn,
                   clampOut>>

Wheel(isIncreasing) ==
    /\ commits < MaxCommits
    /\ WheelStep(isIncreasing)

\* Number of wheel events of a behaviour that only turns the wheel.
MaxWheels == 3

\* a further wheel event of a behaviour that only turns the wheel
WheelAgain(isIncreasing) ==
    /\ commits < MaxWheels
    /\ WheelStep(isIncreasing)

-----------------------------------------------------------------------------
(* connectedCallback / disconnectedCallback                                 *)

NoListeners == [mousemove |-> 0, mouseup |-> 0, wheel |-> 0]

\* the registrations of a connected engine
Registered == [mousemove |-> 1, mouseup |-> 1, wheel |-> 1]

\* the registration stays after removeEventListener
removeEventListenerMiss(n) == n

\* EventTarget.addEventListener with a callback and capture flag that may be
\* registered already (n times): a second registration of the same pair is
\* discarded
addEventListener(n) == IF n > 0 THEN n ELSE 1

\* EventTarget.removeEventListener of that callback, capture flag false as in
\* the registration
removeEventListener(n) == 0

connectedCallback ==
    /\ attached' = TRUE
    /\ listeners' = [mousemove |-> addEventListener(listeners.mousemove),
                     mouseup |-> addEventListener(listeners.mouseup),
                     wheel |-> addEventListener(listeners.wheel)]
    /\ emitted' = <<>>
    /\ lastOp' = "attach"
    /\ UNCHANGED <<rev, zoom, mode, rects, selectedIds, ghost, marquee,
                   downMouse, lastMouse, everFar, gestureEvents, gestureKind,
                   commits, downMod, upMod, downSelection, restacked, pointers,
                   hasGridConfig, detachedInGesture, clampIn, clampOut>>

\* ghost and marquee are not assigned
disconnectedCallback ==
    /\ attached' = FALSE
    /\ listeners' = [mousemove |-> removeEventListener(listeners.mousemove),
                     mouseup |-> removeEventListener(listeners.mouseup),
                     wheel |-> removeEventListener(listeners.wheel)]
    /\ detachedInGesture' = (detachedInGesture \/ ghost # Null \/ marquee # Null)
    /\ emitted' = <<>>
    /\ lastOp' = "detach"
    /\ UNCHANGED <<rev, zoom, mode, rects, selectedIds, ghost, marquee,
                   downMouse, lastMouse, everFar, gestureEvents, gestureKind,
                   commits, downMod, upMod, downSelection, restacked, pointers,
                   hasGridConfig, clampIn, clampOut>>

-----------------------------------------------------------------------------
(* Provider: the toolbar's mode-change and a data load                      *)

Modes == {"design", "render"}

\* handleUIEvent, case 'mode-change': this.mode = payload
ModeChange(m) ==
    /\ mode' = m
    /\ emitted' = <<>>
    /\ lastOp' = "modeChange"
    /\ UNCHANGED <<rev, zoom, rects, selectedIds, ghost, marquee, downMouse,
                   lastMouse, everFar, gestureEvents, gestureKind, commits,
                   downMod, upMod, downSelection, restacked, pointers,
                   hasGridConfig, attached, listeners, detachedInGesture,
                   clampIn, clampOut>>

\* fetchData: this.data = json, republished as rects by _processLayoutData;
\* selectedIds, zoom and mode are not assigned
LoadData(layout) ==
    /\ rects' = layout
    /\ emitted' = <<>>
    /\ lastOp' = "load"
    /\ UNCHANGED <<rev, zoom, mode, selectedIds, ghost, marquee, downMouse,
                   lastMouse, everFar, gestureEvents, gestureKind, commits,
                   downMod, upMod, downSelection, restacked, pointers,
                   hasGridConfig, attached, listeners, detachedInGesture,
                   clampIn, clampOut>>

-----------------------------------------------------------------------------
(* clampGrid harness: a rect and a column count, clamped repeatedly         *)

MaxCoord == 3
MaxClampCols == 4

ClampInputs ==
    [x : -MaxCoord..MaxCoord, y : -MaxCoord..MaxCoord,
     w : -MaxCoord..MaxCoord, h : -MaxCoord..MaxCoord, cols : 1..MaxClampCols]

ClampStep ==
    /\ Len(clampOut) < 2
    /\ clampOut' = Append(clampOut,
                          clampGrid(IF clampOut = <<>> THEN clampIn
                                    ELSE clampOut[Len(clampOut)], clampIn.cols))
    /\ UNCHANGED <<clampIn, engineVars>>

-----------------------------------------------------------------------------
(* Specifications                                                           *)

NoMouse == [x |-> 0, y |-> 0]

\* the engine after construction, consuming a first snapshot
InitSnapshot(scenarios, configs) ==
    /\ rev \in {1, 2}
    /\ \E s \in scenarios :
          /\ rects = s.rects
          /\ zoom = s.zoom
          /\ pointers = s.pointers
    /\ mode = "design"
    /\ selectedIds = <<>>
    /\ ghost = Null
    /\ marquee = Null
    /\ emitted = <<>>
    /\ lastOp = "init"
    /\ downMouse = NoMouse
    /\ lastMouse = NoMouse
    /\ everFar = FALSE
    /\ gestureEvents = 0
    /\ gestureKind = "none"
    /\ commits = 0
    /\ downMod = FALSE
    /\ upMod = FALSE
    /\ downSelection = <<>>
    /\ restacked = FALSE
    /\ hasGridConfig \in configs
    /\ attached = TRUE
    /\ listeners = Registered
    /\ detachedInGesture = FALSE
    /\ clampIn = [x |-> 0, y |-> 0, w |-> 1, h |-> 1, cols |-> 1]
    /\ clampOut = <<>>

\* the orchestrator's gridConfig getter always yields an object
InitWith(scenarios) == InitSnapshot(scenarios, {TRUE})

InitEngine == InitWith(Scenarios)

Init == InitEngine

Next ==
    \/ \E p \in pointers, mod \in BOOLEAN, handle \in Dirs \cup {"none"} :
          MouseDown(p[1], p[2], mod, handle)
    \/ \E p \in pointers : MouseMove(p[1], p[2])
    \/ \E mod \in BOOLEAN : MouseUp(mod)
    \/ \E isIncreasing \in BOOLEAN : Wheel(isIncreasing)

Spec == Init /\ [][Next]_vars

InitSelect == InitWith(ScenariosSelect)

SpecSelect == InitSelect /\ [][Next]_vars

InitMarquee == InitWith(ScenariosMarquee)

SpecMarquee == InitMarquee /\ [][Next]_vars

InitStack == InitWith(ScenariosStack)

SpecStack == InitStack /\ [][Next]_vars

InitResize == InitWith(ScenariosResize)

SpecResize == InitResize /\ [][Next]_vars

\* Resizes of {x:5, y:5, w:4, h:4} from its se handle (canvas (230, 185)): a
\* click on the rect, then drags of the handle 31 columns to the east, past
\* the right edge of the grid, and two rows to the south.
ScenariosResizeEast == {
    Scenario(LayoutResize, 1,
             {<<190, 155>>, <<230, 185>>, <<850, 185>>, <<850, 215>>,
              <<270, 215>>}) }

InitResizeEast == InitWith(ScenariosResizeEast)

SpecResizeEast == InitResizeEast /\ [][Next]_vars

\* Sessions in which the toolbar switches the mode or the provider loads
\* data: three rects over one another; the loaded layout has E where A was
\* and B one row further up.
LayoutSession == << R("A", 2, 2, 4, 2, 0), R("B", 3, 3, 4, 3, 1),
                    R("C", 4, 2, 4, 3, 2) >>
LayoutReloaded == << R("E", 2, 2, 4, 2, 0), R("B", 3, 2, 4, 3, 1),
                     R("C", 4, 2, 4, 3, 2) >>

SessionLayouts == {LayoutSession, LayoutReloaded}

\* Clicks through a stack of three: the cell (4, 3) lies inside A, B and C of
\* LayoutSession; the other pointer is on A alone.
ScenariosClick == {
    Scenario(LayoutSession, 1, {<<135, 100>>, <<95, 85>>}) }

InitClick == InitWith(ScenariosClick)

SpecClick == InitClick /\ [][Next]_vars

\* pointers: on A (E) alone, on B alone, one column to the right of it
ScenariosSession == {
    Scenario(LayoutSession, 1, {<<95, 85>>, <<115, 115>>, <<135, 115>>}) }

InitSession == InitWith(ScenariosSession)

\* the engine's handlers and the provider's data loads
NextLoad ==
    \/ \E p \in pointers, mod \in BOOLEAN, handle \in Dirs \cup {"none"} :
          MouseDown(p[1], p[2], mod, handle)
    \/ \E p \in pointers : MouseMove(p[1], p[2])
    \/ \E mod \in BOOLEAN : MouseUp(mod)
    \/ \E isIncreasing \in BOOLEAN : Wheel(isIncreasing)
    \/ \E layout \in SessionLayouts : LoadData(layout)

SpecLoad == InitSession /\ [][NextLoad]_vars

\* the engine's handlers and the toolbar's mode switch
NextMode ==
    \/ \E p \in pointers, mod \in BOOLEAN, handle \in Dirs \cup {"none"} :
          MouseDown(p[1], p[2], mod, handle)
    \/ \E p \in pointers : MouseMove(p[1], p[2])
    \/ \E mod \in BOOLEAN : MouseUp(mod)
    \/ \E isIncreasing \in BOOLEAN : Wheel(isIncreasing)
    \/ \E m \in Modes : ModeChange(m)

SpecMode == InitSession /\ [][NextMode]_vars

\* The engine from its construction on, connected to and disconnected from
\* the document; an event reaches a handler through its registration, and a
\* pointer-down or wheel event reaches the element only while it is connected.
InitLifecycle ==
    /\ rev \in {1, 2}
    /\ \E s \in ScenariosSession :
          /\ rects = s.rects
          /\ zoom = s.zoom
          /\ pointers = s.pointers
    /\ mode = "design"
    /\ selectedIds = <<>>
    /\ ghost = Null
    /\ marquee = Null
    /\ emitted = <<>>
    /\ lastOp = "init"
    /\ downMouse = NoMouse
    /\ lastMouse = NoMouse
    /\ everFar = FALSE
    /\ gestureEvents = 0
    /\ gestureKind = "none"
    /\ commits = 0
    /\ downMod = FALSE
    /\ upMod = FALSE
    /\ downSelection = <<>>
    /\ restacked = FALSE
    /\ hasGridConfig = TRUE
    /\ attached = FALSE
    /\ listeners = NoListeners
    /\ detachedInGesture = FALSE
    /\ clampIn = [x |-> 0, y |-> 0, w |-> 1, h |-> 1, cols |-> 1]
    /\ clampOut = <<>>

NextLifecycle ==
    \/ connectedCallback
    \/ disconnectedCallback
    \/ /\ attached
       /\ \E p \in pointers, mod \in BOOLEAN, handle \in Dirs \cup {"none"} :
             MouseDown(p[1], p[2], mod, handle)
    \/ /\ listeners.mousemove > 0
       /\ \E p \in pointers : MouseMove(p[1], p[2])
    \/ /\ listeners.mouseup > 0
       /\ \E mod \in BOOLEAN : MouseUp(mod)
    \/ /\ attached
       /\ listeners.wheel > 0
       /\ \E isIncreasing \in BOOLEAN : Wheel(isIncreasing)

SpecLifecycle == InitLifecycle /\ [][NextLifecycle]_vars

\* The engine consuming a snapshot with or without a grid config.
InitFault == InitSnapshot(ScenariosSession, BOOLEAN)

SpecFault == InitFault /\ [][Next]_vars

\* A behaviour that only turns the wheel, over a selection of one or two of
\* the rects.
LayoutGaps == << R("A", 0, 0, 4, 4, 0), R("B", 2, 2, 4, 4, 3),
                 R("C", 3, 3, 4, 4, 5), R("D", 1, 1, 4, 4, 3) >>

WheelLayouts == {LayoutStack, LayoutGaps}

Selections(rs) ==
    {<<a>> : a \in RectIds(rs)}
    \cup ({<<a, b>> : a \in RectIds(rs), b \in RectIds(rs)}
          \ {<<a, a>> : a \in RectIds(rs)})

InitWheel ==
    /\ rev \in {1, 2}
    /\ rects \in WheelLayouts
    /\ selectedIds \in Selections(rects)
    /\ zoom = 1
    /\ mode = "design"
    /\ ghost = Null
    /\ marquee = Null
    /\ emitted = <<>>
    /\ lastOp = "init"
    /\ downMouse = NoMouse
    /\ lastMouse = NoMouse
    /\ everFar = FALSE
    /\ gestureEvents = 0
    /\ gestureKind = "none"
    /\ commits = 0
    /\ downMod = FALSE
    /\ upMod = FALSE
    /\ downSelection = <<>>
    /\ restacked = FALSE
    /\ pointers = {}
    /\ hasGridConfig = TRUE
    /\ attached = TRUE
    /\ listeners = Registered
    /\ detachedInGesture = FALSE
    /\ clampIn = [x |-> 0, y |-> 0, w |-> 1, h |-> 1, cols |-> 1]
    /\ clampOut = <<>>

NextWheel == \E isIncreasing \in BOOLEAN : WheelAgain(isIncreasing)

SpecWheel == InitWheel /\ [][NextWheel]_vars

InitClamp ==
    /\ rev = 1
    /\ zoom = 1
    /\ mode = "design"
    /\ rects = <<>>
    /\ selectedIds = <<>>
    /\ ghost = Null
    /\ marquee = Null
    /\ emitted = <<>>
    /\ lastOp = "init"
    /\ downMouse = NoMouse
    /\ lastMouse = NoMouse
    /\ everFar = FALSE
    /\ gestureEvents = 0
    /\ gestureKind = "none"
    /\ commits = 0
    /\ downMod = FALSE
    /\ upMod = FALSE
    /\ downSelection = <<>>
    /\ restacked = FALSE
    /\ pointers = {}
    /\ hasGridConfig = TRUE
    /\ attached = TRUE
    /\ listeners = Registered
    /\ detachedInGesture = FALSE
    /\ clampIn \in ClampInputs
    /\ clampOut = <<>>

NextClamp == ClampStep

SpecClamp == InitClamp /\ [][NextClamp]_vars

-----------------------------------------------------------------------------
(* Properties                                                               *)

MoveOps == {"move", "moveIdle", "moveFault"}

IsRectUpdate(e) == e.type = "rect-update"
IsSelectionChange(e) == e.type = "selection-change"

Legal(r, cols) ==
    r.x >= 0 /\ r.y >= 0 /\ r.w >= 1 /\ r.h >= 1 /\ r.x + r.w <= cols

\* C1: at most one of ghost and marquee is non-null in every reachable state,
\* and after every pointer-up both are null.
C1_GestureStateMachine ==
    /\ ~(ghost # Null /\ marquee # Null)
    /\ lastOp \in {"up", "upIdle"} => (ghost = Null /\ marquee = Null)

\* a drag has been committed by a pointer-up
C1_Witness ==
    /\ lastOp = "up"
    /\ gestureKind = "MOVE"
    /\ emitted # <<>>
    /\ IsRectUpdate(emitted[1])

\* C2 as claimed: a completed gesture emits exactly one intent event in total.
C2_ExactlyOneEvent ==
    lastOp = "up" => gestureEvents = 1

\* C2 as amended: the pointer-down of a gesture emits exactly one
\* selection-change, its pointer-moves emit nothing, and its pointer-up emits
\* at most one further event (a rect-update or a selection-change): a
\* completed gesture emits one or two intent events, never two at pointer-up.
C2_OneAtDownAtMostOneAtUp ==
    /\ lastOp = "down" =>
          /\ Len(emitted) = 1
          /\ IsSelectionChange(emitted[1])
          /\ gestureEvents = 1
    /\ lastOp \in MoveOps => emitted = <<>>
    /\ lastOp = "up" =>
          /\ Len(emitted) <= 1
          /\ gestureEvents = 1 + Len(emitted)

\* a drag gesture has completed with two events: the selection-change of its
\* pointer-down and the rect-update of its pointer-up
C2_Witness ==
    /\ lastOp = "up"
    /\ gestureEvents = 2
    /\ IsRectUpdate(emitted[1])

SameButCurrent(a, b) ==
    /\ a.id = b.id
    /\ a.originalRect = b.originalRect

\* C3: a pointer-move emits nothing and leaves rects and selection alone;
\* with a marquee it changes at most the marquee's x2, y2; with a ghost it
\* changes at most the items' currentRect and wasDragged.
C3_MoveIsLocal ==
    [][lastOp' \in MoveOps =>
          /\ emitted' = <<>>
          /\ rects' = rects
          /\ selectedIds' = selectedIds
          /\ (marquee # Null =>
                /\ marquee' # Null
                /\ marquee'.x1 = marquee.x1
                /\ marquee'.y1 = marquee.y1
                /\ ghost' = ghost)
          /\ (ghost # Null =>
                /\ marquee' = marquee
                /\ ghost' # Null
                /\ ghost'.primaryId = ghost.primaryId
                /\ ghost'.originalSelectedIds = ghost.originalSelectedIds
                /\ ghost'.type = ghost.type
                /\ ghost'.resizeDir = ghost.resizeDir
                /\ ghost'.startMouse = ghost.startMouse
                /\ Len(ghost'.items) = Len(ghost.items)
                /\ \A i \in DOMAIN ghost.items :
                      SameButCurrent(ghost'.items[i], ghost.items[i]))
          /\ (ghost = Null /\ marquee = Null =>
                ghost' = Null /\ marquee' = Null)
    ]_vars

\* a pointer-move has moved the second corner of a marquee away from the first
C3_Witness ==
    /\ lastOp = "move"
    /\ marquee # Null
    /\ marquee.x2 # marquee.x1

\* C4: the pointer-up of a dragged MOVE or RESIZE ghost emits one rect-update
\* with one entry per ghost item, carrying the item's currentRect, and no
\* entry for any other id.
C4_CommitAllItems ==
    [][(ghost # Null /\ ghost.wasDragged /\ lastOp' = "up") =>
          /\ Len(emitted') = 1
          /\ IsRectUpdate(emitted'[1])
          /\ Len(emitted'[1].payload) = Len(ghost.items)
          /\ \A i \in DOMAIN ghost.items :
                Cardinality({j \in DOMAIN emitted'[1].payload :
                                emitted'[1].payload[j].id = ghost.items[i].id}) = 1
          /\ \A j \in DOMAIN emitted'[1].payload :
                \E i \in DOMAIN ghost.items :
                   /\ ghost.items[i].id = emitted'[1].payload[j].id
                   /\ ghost.items[i].currentRect = emitted'[1].payload[j].rect
    ]_vars

\* a rect-update with two entries has been committed
C4_Witness ==
    /\ lastOp = "up"
    /\ emitted # <<>>
    /\ IsRectUpdate(emitted[1])
    /\ Len(emitted[1].payload) = 2

\* C5: wasDragged is true exactly when some pointer-move of the gesture was
\* more than 2 pixels from the pointer-down position in x or y (so it never
\* returns to false), and the pointer-up of a MOVE or RESIZE gesture emits a
\* rect-update exactly in that case.
C5_DragThreshold ==
    /\ ghost # Null => (ghost.wasDragged <=> everFar)
    /\ (lastOp = "up" /\ gestureKind \in {"MOVE", "RESIZE"}) =>
          (everFar <=> (emitted # <<>> /\ IsRectUpdate(emitted[1])))

\* a gesture whose pointer moved, by exactly 2 pixels, ended without a
\* rect-update
C5_Witness ==
    /\ lastOp = "up"
    /\ gestureKind = "MOVE"
    /\ ~everFar
    /\ Abs(lastMouse.x - downMouse.x) = 2 * Sub
    /\ \A i \in DOMAIN emitted : ~IsRectUpdate(emitted[i])

\* C6: every rect of a rect-update emitted by a MOVE or RESIZE gesture, and
\* every currentRect of a ghost, is legal for the column count.
C6_CommittedRectsLegal ==
    /\ ghost # Null =>
          \A i \in DOMAIN ghost.items : Legal(ghost.items[i].currentRect, Cols)
    /\ lastOp = "up" =>
          \A i \in DOMAIN emitted :
             IsRectUpdate(emitted[i]) =>
                \A j \in DOMAIN emitted[i].payload :
                   Legal(emitted[i].payload[j].rect, Cols)

\* a drag past the left and the top edge has been committed at x = 0, y = 0
C6_Witness ==
    /\ lastOp = "up"
    /\ emitted # <<>>
    /\ IsRectUpdate(emitted[1])
    /\ lastMouse.x < 0 + Padding * Sub
    /\ lastMouse.y < 0 + Padding * Sub
    /\ \E j \in DOMAIN emitted[1].payload :
          /\ emitted[1].payload[j].rect.x = 0
          /\ emitted[1].payload[j].rect.y = 0

Clamp(v, lo, hi) == IF v < lo THEN lo ELSE IF v > hi THEN hi ELSE v

\* C7: clampGrid's result has 1 <= w' <= cols, 0 <= x' <= cols - w', y' >= 0,
\* h' >= 1, with w' = clamp(w, 1, cols), x' = clamp(x, 0, cols - w'),
\* y' = max(0, y), h' = max(1, h).
C7_ClampGridRange ==
    Len(clampOut) >= 1 =>
        LET r == clampOut[1]
            cols == clampIn.cols
        IN  /\ 1 <= r.w /\ r.w <= cols
            /\ 0 <= r.x /\ r.x <= cols - r.w
            /\ r.y >= 0
            /\ r.h >= 1
            /\ r.w = Clamp(clampIn.w, 1, cols)
            /\ r.x = Clamp(clampIn.x, 0, cols - r.w)
            /\ r.y = (IF clampIn.y < 0 THEN 0 ELSE clampIn.y)
            /\ r.h = (IF clampIn.h < 1 THEN 1 ELSE clampIn.h)

\* a rect too wide for the grid and left of it has been clamped
C7_Witness ==
    /\ Len(clampOut) >= 1
    /\ clampIn.w > clampIn.cols
    /\ clampIn.x < 0
    /\ clampOut[1].w = clampIn.cols

\* C8: clampGrid applied to its own result returns that result.
C8_ClampGridIdempotent ==
    Len(clampOut) = 2 => clampOut[2] = clampOut[1]

\* clampGrid has been applied twice to a rect its first application changed
C8_Witness ==
    /\ Len(clampOut) = 2
    /\ clampOut[1].x # clampIn.x
    /\ clampOut[1].w # clampIn.w

\* n is an integer nearest to delta / step (delta in canvas units)
Nearest(n, delta, step) ==
    2 * Abs(delta - n * step * Sub) <= step * Sub

MaxGridDelta == 40

\* C9: in a MOVE of a single rect the committed rect is clampGrid(original +
\* grid delta), the grid delta being the pixel delta from the pointer-down
\* position divided by stepX (stepY) and rounded to the nearest integer.
C9_MoveSnapsToNearest ==
    [][(/\ ghost # Null
        /\ ghost.type = "MOVE"
        /\ ghost.wasDragged
        /\ Len(ghost.items) = 1
        /\ lastOp' = "up") =>
          \E nx, ny \in -MaxGridDelta..MaxGridDelta :
             /\ Nearest(nx, lastMouse.x - downMouse.x, StepX)
             /\ Nearest(ny, lastMouse.y - downMouse.y, StepY)
             /\ LET orig == ghost.items[1].originalRect
                    c == clampGrid([x |-> orig.x + nx, y |-> orig.y + ny,
                                    w |-> orig.w, h |-> orig.h], Cols)
                IN  emitted' = <<RectUpdate(<<[id |-> orig.id,
                                               rect |-> Merge(orig, c)]>>)>>
    ]_vars

\* rect {x:2, y:2, w:4, h:2} dragged by 2 steps right and 1 step down has
\* been committed as {x:4, y:3, w:4, h:2}
C9_Witness ==
    /\ lastOp = "up"
    /\ lastMouse.x - downMouse.x = 2 * StepX * Sub
    /\ lastMouse.y - downMouse.y = StepY * Sub
    /\ emitted = <<RectUpdate(<<[id |-> "A", rect |-> R("A", 4, 3, 4, 2, 1)]>>)>>

\* the items as they were at pointer-down
FreshItems(items) ==
    [i \in DOMAIN items |-> [items[i] EXCEPT !.currentRect = items[i].originalRect]]

\* C10: after any pointer-moves of a MOVE or RESIZE gesture every item's
\* currentRect is determined by the originalRects, the pointer-down position,
\* the last pointer position and the grid config alone.
C10_NoDrift ==
    (ghost # Null /\ lastOp \in {"down", "move"}) =>
        LET gdx == RoundDiv(lastMouse.x - downMouse.x, StepX)
            gdy == RoundDiv(lastMouse.y - downMouse.y, StepY)
            fresh == FreshItems(ghost.items)
        IN  /\ ghost.startMouse = downMouse
            /\ lastOp = "down" => ghost.items = fresh
            /\ (lastOp = "move" /\ ghost.type = "MOVE" /\ rev = 1) =>
                  ghost.items = MoveItems(fresh, gdx, gdy, Cols)
            /\ (lastOp = "move" /\ ghost.type = "MOVE" /\ rev = 2) =>
                  ghost.items = MoveGroup(fresh, gdx, gdy, Cols)
            /\ (lastOp = "move" /\ ghost.type = "RESIZE") =>
                  \A i \in DOMAIN ghost.items :
                     ghost.items[i] =
                        IF ghost.items[i].id = ghost.primaryId
                        THEN ResizeItem(fresh[i], ghost.resizeDir, gdx, gdy, Cols)
                        ELSE fresh[i]

\* the pointer is back within half a step of its pointer-down position after
\* a drag, and the item is back on its original rect
C10_Witness ==
    /\ ghost # Null
    /\ ghost.wasDragged
    /\ lastOp = "move"
    /\ ghost.items # <<>>
    /\ RoundDiv(lastMouse.x - downMouse.x, StepX) = 0
    /\ RoundDiv(lastMouse.y - downMouse.y, StepY) = 0
    /\ ghost.items[1].currentRect = ghost.items[1].originalRect

\* C11: in the group-clamp revision, a dragged MOVE commits every item at its
\* original rect displaced by one common (dx, dy): the rounded grid delta
\* limited so that the group's bounding box stays within columns 0..Cols and
\* at or below row 0.
C11_RigidGroupMove ==
    [][(/\ rev = 2
        /\ ghost # Null
        /\ ghost.type = "MOVE"
        /\ ghost.wasDragged
        /\ ghost.items # <<>>
        /\ lastOp' = "up") =>
          LET O == {ghost.items[i].originalRect : i \in DOMAIN ghost.items}
              minX == SetMin({o.x : o \in O})
              minY == SetMin({o.y : o \in O})
              maxX == SetMax({o.x + o.w : o \in O})
              gdx == RoundDiv(lastMouse.x - downMouse.x, StepX)
              gdy == RoundDiv(lastMouse.y - downMouse.y, StepY)
              dx == Clamp(gdx, -minX, Cols - maxX)
              dy == Max(gdy, -minY)
          IN  emitted' = <<RectUpdate(
                  [i \in DOMAIN ghost.items |->
                      [id |-> ghost.items[i].id,
                       rect |-> [ghost.items[i].originalRect
                                    EXCEPT !.x = @ + dx, !.y = @ + dy]]])>>
    ]_vars

\* two rects spanning columns 0..34 have been dragged 5 columns to the right
\* and committed 2 columns to the right, the rightmost edge on column 36
C11_Witness ==
    /\ rev = 2
    /\ lastOp = "up"
    /\ lastMouse.x - downMouse.x = 5 * StepX * Sub
    /\ emitted = <<RectUpdate(<<[id |-> "A", rect |-> R("A", 2, 0, 10, 2, 0)],
                                [id |-> "B", rect |-> R("B", 32, 1, 4, 2, 0)]>>)>>

\* a dragged RESIZE ghost whose primary item exists is about to be committed
ResizeCommit ==
    /\ ghost # Null
    /\ ghost.type = "RESIZE"
    /\ ghost.wasDragged
    /\ ItemIndex(ghost.items, ghost.primaryId) # 0
    /\ lastOp' = "up"

\* the rect the rect-update of the step carries for id
Committed(id) ==
    LET p == emitted'[1].payload
    IN  p[CHOOSE j \in DOMAIN p : p[j].id = id].rect

\* C12: a RESIZE from a west handle with grid delta d >= 0 commits width
\* max(1, w - d) and x advanced by min(w - 1, d); from a north handle
\* likewise height max(1, h - d) and y advanced by min(h - 1, d); no resize
\* commits a width or height below 1.
C12_ShrinkFromWestNorth ==
    [][ResizeCommit =>
          LET orig == ghost.items[ItemIndex(ghost.items, ghost.primaryId)].originalRect
              d == RoundDiv(lastMouse.x - downMouse.x, StepX)
              e == RoundDiv(lastMouse.y - downMouse.y, StepY)
              c == Committed(ghost.primaryId)
          IN  /\ Len(emitted') = 1
              /\ IsRectUpdate(emitted'[1])
              /\ c.w >= 1
              /\ c.h >= 1
              /\ (HasW(ghost.resizeDir) /\ d >= 0) =>
                    /\ c.w = Max(1, orig.w - d)
                    /\ c.x = orig.x + Min(orig.w - 1, d)
              /\ (HasN(ghost.resizeDir) /\ e >= 0) =>
                    /\ c.h = Max(1, orig.h - e)
                    /\ c.y = orig.y + Min(orig.h - 1, e)
    ]_vars

\* {x:5, y:5, w:4, h:4} resized from the nw handle by (+2, +2) has been
\* committed as {x:7, y:7, w:2, h:2}
C12_Witness ==
    /\ lastOp = "up"
    /\ gestureKind = "RESIZE"
    /\ lastMouse.x - downMouse.x = 2 * StepX * Sub
    /\ lastMouse.y - downMouse.y = 2 * StepY * Sub
    /\ emitted = <<RectUpdate(<<[id |-> "A", rect |-> R("A", 7, 7, 2, 2, 0)]>>)>>

\* C13: a RESIZE from a west handle commits a rect with the original east
\* edge (x' + w' = x + w), and a RESIZE from a north handle one with the
\* original south edge (y' + h' = y + h), for every grid delta.
C13_OppositeEdgeFixed ==
    [][ResizeCommit =>
          LET orig == ghost.items[ItemIndex(ghost.items, ghost.primaryId)].originalRect
              c == Committed(ghost.primaryId)
          IN  /\ HasW(ghost.resizeDir) => c.x + c.w = orig.x + orig.w
              /\ HasN(ghost.resizeDir) => c.y + c.h = orig.y + orig.h
    ]_vars

\* the grid cell of the pointer-down the step handles
DownCell == getGridCoords(downMouse'.x, downMouse'.y)

\* the rects whose cell range contains the cell
Under(cell) ==
    {i \in DOMAIN rects : /\ rects[i].x <= cell.gridX
                          /\ cell.gridX < rects[i].x + rects[i].w
                          /\ rects[i].y <= cell.gridY
                          /\ cell.gridY < rects[i].y + rects[i].h}

\* the step is a pointer-down that is not on a resize handle
BodyDown == lastOp' = "down" /\ gestureKind' # "RESIZE"

IsSelected(i) == \E k \in DOMAIN selectedIds : selectedIds[k] = rects[i].id

\* C14 as claimed: a pointer-down not on a handle over a cell inside some
\* rect starts a MOVE ghost whose primary has the highest z of all rects
\* containing the cell, whatever the selection; over no rect it starts a
\* marquee.
C14_TopmostIsPrimary ==
    [][BodyDown =>
          IF Under(DownCell) = {}
          THEN marquee' # Null /\ ghost' = Null
          ELSE /\ marquee' = Null
               /\ ghost' # Null
               /\ ghost'.type = "MOVE"
               /\ \E i \in Under(DownCell) :
                     /\ rects[i].id = ghost'.primaryId
                     /\ \A j \in Under(DownCell) : rects[j].z <= rects[i].z
    ]_vars

\* C14 as amended: the primary is the highest-z rect among the already
\* selected rects containing the cell when there is one (revision 2), and
\* otherwise, and always in revision 1, the highest-z rect among all rects
\* containing the cell; over no rect a marquee starts.
C14_SelectedThenTopmost ==
    [][BodyDown =>
          LET all == Under(DownCell)
              sel == {i \in all : IsSelected(i)}
              from == IF rev = 2 /\ sel # {} THEN sel ELSE all
          IN  IF all = {}
              THEN marquee' # Null /\ ghost' = Null
              ELSE /\ marquee' = Null
                   /\ ghost' # Null
                   /\ ghost'.type = "MOVE"
                   /\ \E i \in from :
                         /\ rects[i].id = ghost'.primaryId
                         /\ \A j \in from : rects[j].z <= rects[i].z
    ]_vars

\* in revision 2 a press on a cell of both rects has grabbed the selected
\* rect A (z = 1) underneath B (z = 2)
C14_Witness ==
    /\ rev = 2
    /\ lastOp = "down"
    /\ gestureKind = "MOVE"
    /\ downSelection = <<"A">>
    /\ ghost.primaryId = "A"
    /\ LET g == getGridCoords(downMouse.x, downMouse.y)
       IN  \A i \in DOMAIN rects : Contains(rects[i], g.gridX, g.gridY)

\* C15: a pointer-down on a rect body without modifier emits the selection
\* {hit id} if the hit rect was not selected and the unchanged selection if it
\* was; with a modifier it emits the selection with the hit id removed if it
\* was present and appended if it was absent, the other ids kept in order.
C15_SelectionAtPointerDown ==
    [][(lastOp' = "down" /\ gestureKind' = "MOVE") =>
          LET hitId == ghost'.primaryId
              was == \E k \in DOMAIN selectedIds : selectedIds[k] = hitId
              expected ==
                  IF downMod'
                  THEN IF was THEN SelectSeq(selectedIds, LAMBDA id : id # hitId)
                       ELSE selectedIds \o <<hitId>>
                  ELSE IF was THEN selectedIds ELSE <<hitId>>
          IN  /\ emitted' = <<SelectionChange(expected)>>
              /\ selectedIds' = expected
    ]_vars

\* a modifier press on B has added it to the selection [A]
C15_Witness ==
    /\ lastOp = "down"
    /\ gestureKind = "MOVE"
    /\ downMod
    /\ downSelection = <<"A">>
    /\ selectedIds = <<"A", "B">>

C17_BackgroundStartsMarquee ==
    [][(BodyDown /\ Under(DownCell) = {}) =>
          /\ ghost' = Null
          /\ marquee' # Null
          /\ marquee'.x1 = marquee'.x2
          /\ marquee'.y1 = marquee'.y2
          /\ \E p \in pointers :
                /\ marquee'.x1 * zoom = p[1] * Sub
                /\ marquee'.y1 * zoom = p[2] * Sub
          /\ selectedIds' = (IF downMod' THEN selectedIds ELSE <<>>)
          /\ emitted' = <<SelectionChange(selectedIds')>>
    ]_vars

\* at zoom 2 a modifier press on the background has started a marquee and
\* kept the selection
C17_Witness ==
    /\ zoom = 2
    /\ lastOp = "down"
    /\ gestureKind = "MARQUEE"
    /\ marquee # Null
    /\ marquee.x1 = 55 * Sub
    /\ ghost = Null
    /\ downMod
    /\ selectedIds # <<>>

\* the marquee is wider or higher than 2 canvas pixels
MarqueeIsBig ==
    \/ marquee.x1 - marquee.x2 > 2 * Sub \/ marquee.x2 - marquee.x1 > 2 * Sub
    \/ marquee.y1 - marquee.y2 > 2 * Sub \/ marquee.y2 - marquee.y1 > 2 * Sub

\* the ids of the rects whose pixel box strictly overlaps the marquee
MarqueeHits ==
    LET mLeft == Min(marquee.x1, marquee.x2)
        mRight == Max(marquee.x1, marquee.x2)
        mTop == Min(marquee.y1, marquee.y2)
        mBottom == Max(marquee.y1, marquee.y2)
    IN  {rects[i].id : i \in
            {i \in DOMAIN rects :
                LET rLeft == (Padding + rects[i].x * StepX) * Sub
                    rRight == rLeft + rects[i].w * StepX * Sub
                    rTop == (Padding + rects[i].y * StepY) * Sub
                    rBottom == rTop + rects[i].h * StepY * Sub
                IN  rLeft < mRight /\ rRight > mLeft
                    /\ rTop < mBottom /\ rBottom > mTop}}

SeqRange(q) == {q[i] : i \in DOMAIN q}

\* the step emits one selection-change of the ids of S, each once
EmitsSelection(S) ==
    /\ Len(emitted') = 1
    /\ IsSelectionChange(emitted'[1])
    /\ SeqRange(emitted'[1].payload) = S
    /\ Len(emitted'[1].payload) = Cardinality(S)

C19_AdditiveAtPointerDown ==
    [][(marquee # Null /\ MarqueeIsBig /\ lastOp' = "up") =>
          EmitsSelection(MarqueeHits \cup
                         (IF downMod THEN SeqRange(downSelection) ELSE {}))
    ]_vars

IdsOf(p) == {p[j].id : j \in DOMAIN p}

\* C20: a wheel event emits nothing and changes no rect, or emits exactly one
\* rect-update in which every id occurs once, which holds every selected rect
\* of the anchor's stack and a rect of the stack that is not selected, each
\* with its geometry unchanged and its new z, and which the provider applies
\* as a whole.
C20_WheelTransactional ==
    [][lastOp' \in {"wheel", "wheelIdle"} =>
          \/ emitted' = <<>> /\ rects' = rects
          \/ /\ Len(emitted') = 1
             /\ IsRectUpdate(emitted'[1])
             /\ selectedIds # <<>>
             /\ LET p == emitted'[1].payload
                    anchor == RectOf(rects, selectedIds[1])
                    stack == {i \in DOMAIN rects : Overlaps(rects[i], anchor)}
                    selIn == {i \in stack : IsSelected(i)}
                IN  /\ Cardinality(IdsOf(p)) = Len(p)
                    /\ \A i \in selIn : rects[i].id \in IdsOf(p)
                    /\ \E i \in stack \ selIn : rects[i].id \in IdsOf(p)
                    /\ rev = 1 => Len(p) = Cardinality(selIn) + 1
                    /\ \A j \in DOMAIN p : \E i \in DOMAIN rects :
                          /\ rects[i].id = p[j].id
                          /\ [p[j].rect EXCEPT !.z = rects[i].z] = rects[i]
                          /\ rects'[i] = p[j].rect
                    /\ \A i \in DOMAIN rects :
                          rects[i].id \notin IdsOf(p) => rects'[i] = rects[i]
    ]_vars

\* a wheel event with A and B selected has emitted the new z of A, B and C
C20_Witness ==
    /\ lastOp = "wheel"
    /\ Len(selectedIds) = 2
    /\ Len(emitted) = 1
    /\ IdsOf(emitted[1].payload) = {"A", "B", "C"}
    /\ Len(emitted[1].payload) = 3

-----------------------------------------------------------------------------
(* Wheel: z order                                                           *)

\* rect i is painted below rect j: lower z, or the same z and earlier in the
\* collection (the order render() lays the wireframes out in)
Below(rs, i, j) == rs[i].z < rs[j].z \/ (rs[i].z = rs[j].z /\ i < j)

\* rect i is left alone by the wheel event of this step: not selected and,
\* in revision 1, not the neighbour the selection is swapped with (the only
\* rect of the patch list that is not selected)
Untouched(i) ==
    /\ ~IsSelected(i)
    /\ rev = 1 => rects[i].id \notin IdsOf(emitted'[1].payload)

\* C21: a wheel event that reorders z leaves the order of any two untouched
\* rects as it was: the one painted below the other before is painted below
\* it after the rect-update is applied, and a lower z stays a lower z; in
\* revision 2 this holds for every pair of rects that are not selected.
C21_UntouchedOrderKept ==
    [][lastOp' = "wheel" =>
         \A i \in DOMAIN rects, j \in DOMAIN rects :
            (i # j /\ Untouched(i) /\ Untouched(j)) =>
               /\ Below(rects, i, j) <=> Below(rects', i, j)
               /\ rects[i].z < rects[j].z => rects'[i].z < rects'[j].z]_vars

\* a second wheel event in revision 2 whose patch list renumbers three rects
\* that are not selected
C21_Witness ==
    /\ lastOp = "wheel"
    /\ rev = 2
    /\ commits >= 2
    /\ Cardinality({j \in DOMAIN emitted[1].payload :
                       ~Includes(selectedIds, emitted[1].payload[j].id)}) >= 3

\* indices of the rects of the overlapping stack of the anchor
StackOf(rs, sel) ==
    {i \in DOMAIN rs : Overlaps(rs[i], RectOf(rs, sel[1]))}

DistinctZ(rs, S) == \A i \in S, j \in S : i # j => rs[i].z # rs[j].z

\* C22: when the rects of the anchor's overlapping stack have pairwise
\* distinct z before a wheel event, they have pairwise distinct z after the
\* emitted rect-update is applied.
C22_SwapWithoutCollision ==
    [][(/\ lastOp' = "wheel"
        /\ HasRect(rects, selectedIds[1])
        /\ DistinctZ(rects, StackOf(rects, selectedIds)))
       => DistinctZ(rects', StackOf(rects, selectedIds))]_vars

\* C23: z is never negative: starting from a snapshot whose z are all >= 0,
\* after any sequence of wheel events every z of every emitted rect-update,
\* and so every z of the layout, is >= 0.
C23_ZNeverNegative ==
    /\ \A i \in DOMAIN rects : rects[i].z >= 0
    /\ \A e \in DOMAIN emitted :
          IsRectUpdate(emitted[e]) =>
             \A j \in DOMAIN emitted[e].payload : emitted[e].payload[j].rect.z >= 0

\* revision 1, wheel up: two selected rects of the stack were lowered by more
\* than the lower one's z and both were held at 0
C23_Witness ==
    /\ lastOp = "wheel"
    /\ rev = 1
    /\ Len(emitted[1].payload) = 3
    /\ emitted[1].payload[1].rect.z = 0
    /\ emitted[1].payload[2].rect.z = 0
    /\ Includes(selectedIds, emitted[1].payload[1].id)
    /\ Includes(selectedIds, emitted[1].payload[2].id)
    /\ emitted[1].payload[3].rect.z > 0

-----------------------------------------------------------------------------
(* Gating by mode and selection                                             *)

WheelOps == {"wheel", "wheelIdle"}
DownOps == {"down", "downIgnored", "downFault"}

\* C24: a wheel event emits nothing (and changes neither layout nor
\* selection) unless the mode is 'design' and the selection is non-empty; a
\* pointer-down while the mode is not 'design' emits nothing and leaves ghost
\* and marquee as they were.
C24_ModeAndSelectionGating ==
    [][/\ (lastOp' \in WheelOps /\ (mode # "design" \/ selectedIds = <<>>))
            => /\ emitted' = <<>>
               /\ rects' = rects
               /\ selectedIds' = selectedIds
       /\ (lastOp' \in DownOps /\ mode # "design")
            => /\ emitted' = <<>>
               /\ ghost' = ghost
               /\ marquee' = marquee
               /\ rects' = rects
               /\ selectedIds' = selectedIds]_vars

\* a wheel event in render mode over a selected rect that has neighbours
\* above and below it in its stack
C24_Witness ==
    /\ lastOp = "wheelIdle"
    /\ mode = "render"
    /\ selectedIds = <<"B">>
    /\ rects = LayoutSession

-----------------------------------------------------------------------------
(* The provider's rect-update                                               *)

\* the last patch of p for id
LastPatch(p, id) == p[SetMax({j \in DOMAIN p : p[j].id = id})]

\* C25: a step that emits a rect-update takes the layout to the old layout
\* with x, y, w, h, z replaced for exactly the positions whose id occurs in
\* the patch list (patches with an unknown id change nothing, the others are
\* applied all the same), in that one step, and leaves the selection, the
\* zoom and the mode as they were.
C25_RectUpdateAtomic ==
    [][(Len(emitted') = 1 /\ IsRectUpdate(emitted'[1])) =>
         LET p == emitted'[1].payload
         IN  /\ Len(rects') = Len(rects)
             /\ \A i \in DOMAIN rects :
                   IF rects[i].id \in IdsOf(p)
                   THEN LET u == LastPatch(p, rects[i].id).rect
                        IN  rects'[i] = [id |-> rects[i].id, x |-> u.x,
                                         y |-> u.y, w |-> u.w, h |-> u.h,
                                         z |-> u.z]
                   ELSE rects'[i] = rects[i]
             /\ selectedIds' = selectedIds
             /\ zoom' = zoom
             /\ mode' = mode]_vars

\* a rect-update whose first patch names a rect the layout no longer has and
\* whose second patch was applied
C25_Witness ==
    /\ lastOp = "up"
    /\ Len(emitted) = 1
    /\ IsRectUpdate(emitted[1])
    /\ Len(emitted[1].payload) = 2
    /\ ~HasRect(rects, emitted[1].payload[1].id)
    /\ HasRect(rects, emitted[1].payload[2].id)
    /\ LET u == emitted[1].payload[2]
       IN  /\ RectOf(rects, u.id).x = u.rect.x
           /\ RectOf(rects, u.id).y = u.rect.y
           /\ RectOf(LayoutReloaded, u.id).x # u.rect.x

-----------------------------------------------------------------------------
(* The snapshot is read-only for the engine                                 *)

EngineOps == {"down", "downIgnored", "downFault", "move", "moveIdle",
              "moveFault", "up", "upIdle", "upFault", "wheel", "wheelIdle"}

\* ids named by the rect-updates among evs
PatchedIds(evs) ==
    UNION {IdsOf(evs[e].payload) : e \in {k \in DOMAIN evs : IsRectUpdate(evs[k])}}

\* C26: no pointer-down, pointer-move, pointer-up or wheel handler changes
\* the snapshot by itself: a rect changes only if a rect-update emitted in
\* the same step names it, the collection keeps its rects and their order,
\* the selection changes only by an emitted selection-change, and zoom, mode
\* and grid config do not change.
C26_SnapshotReadOnly ==
    [][lastOp' \in EngineOps =>
         /\ Len(rects') = Len(rects)
         /\ \A i \in DOMAIN rects :
               /\ rects'[i].id = rects[i].id
               /\ rects[i].id \notin PatchedIds(emitted') => rects'[i] = rects[i]
         /\ (\A e \in DOMAIN emitted' : ~IsSelectionChange(emitted'[e]))
               => selectedIds' = selectedIds
         /\ zoom' = zoom
         /\ mode' = mode
         /\ hasGridConfig' = hasGridConfig]_vars

\* a drag has taken a ghost item away from its original rect and the rect of
\* the snapshot is still the original
C26_Witness ==
    /\ lastOp = "move"
    /\ ghost # Null
    /\ ghost.wasDragged
    /\ \E i \in DOMAIN ghost.items :
          /\ ghost.items[i].currentRect # ghost.items[i].originalRect
          /\ HasRect(rects, ghost.items[i].id)
          /\ RectOf(rects, ghost.items[i].id) = ghost.items[i].originalRect

-----------------------------------------------------------------------------
(* Snapshot isolation of a gesture                                          *)

Geo(r) == <<r.x, r.y, r.w, r.h>>

Originals(items) ==
    [i \in DOMAIN items |-> [id |-> items[i].id, rect |-> items[i].originalRect]]

\* the geometry the gesture of ghost g commits for its item i when the
\* pointer was last seen at m: a function of the originalRects, the
\* pointer-down position and m
IsolatedGeo(g, i, m) ==
    LET gdx == RoundDiv(m.x - g.startMouse.x, StepX)
        gdy == RoundDiv(m.y - g.startMouse.y, StepY)
        orig == g.items[i].originalRect
        fresh == FreshItems(g.items)
    IN  IF g.type = "MOVE"
        THEN IF rev = 1
             THEN Geo(clampGrid([x |-> orig.x + gdx, y |-> orig.y + gdy,
                                 w |-> orig.w, h |-> orig.h], Cols))
             ELSE Geo(MoveGroup(fresh, gdx, gdy, Cols)[i].currentRect)
        ELSE IF g.items[i].id = g.primaryId
        THEN Geo(ResizeItem(fresh[i], g.resizeDir, gdx, gdy, Cols).currentRect)
        ELSE Geo(orig)

\* C27: the originalRects of a ghost are the rects of the snapshot at its
\* pointer-down, no later step of the gesture (a data load and a wheel event
\* included) changes them, and the x, y, w, h of every rect of the
\* rect-update the gesture commits are computed from them and the pointer
\* positions alone, whatever the rects of the snapshot are by then.
C27_SnapshotIsolation ==
    [][/\ (lastOp' = "down" /\ ghost' # Null) =>
             \A i \in DOMAIN ghost'.items :
                ghost'.items[i].originalRect = RectOf(rects, ghost'.items[i].id)
       /\ (ghost # Null /\ ghost' # Null /\ lastOp' # "down") =>
             /\ Originals(ghost'.items) = Originals(ghost.items)
             /\ ghost'.startMouse = ghost.startMouse
       /\ (lastOp' = "up" /\ ghost # Null /\ emitted' # <<>>
             /\ IsRectUpdate(emitted'[1])) =>
             LET p == emitted'[1].payload
             IN  /\ Len(p) = Len(ghost.items)
                 /\ \A i \in DOMAIN p :
                       /\ p[i].id = ghost.items[i].id
                       /\ Geo(p[i].rect) = IsolatedGeo(ghost, i, lastMouse)]_vars

\* B was grabbed at (3,3) and dragged one column to the right, the layout in
\* which E stands for A and B is at (3,2) was loaded before the pointer-up,
\* and the commit put B at (4,3)
C27_Witness ==
    /\ lastOp = "up"
    /\ emitted # <<>>
    /\ IsRectUpdate(emitted[1])
    /\ HasRect(rects, "E")
    /\ HasRect(rects, "B")
    /\ Geo(RectOf(rects, "B")) = <<4, 3, 4, 3>>

-----------------------------------------------------------------------------
(* Stale selection                                                          *)

Faults == {"downFault", "moveFault", "upFault"}

HasStale(sel) == \E k \in DOMAIN sel : ~HasRect(rects, sel[k])

ValidIds(sel) == SelectSeq(sel, LAMBDA id : HasRect(rects, id))

\* C28: when the selection holds an id that has no rect in the snapshot, no
\* handler faults, the ghost a pointer-down builds and the rect-update a
\* wheel event emits hold no id without a rect, a pointer-down on a rect puts
\* every valid id of the new selection into the ghost, and a wheel event
\* reorders the valid selected ids as it would if the stale id were not in
\* the list, wherever in the list it stands.
C28_StaleSelectionSkipped ==
    [][(HasStale(selectedIds) /\ lastOp' \in EngineOps) =>
         /\ lastOp' \notin Faults
         /\ (lastOp' = "down" /\ ghost' # Null) =>
               /\ \A i \in DOMAIN ghost'.items : HasRect(rects, ghost'.items[i].id)
               /\ ghost'.type = "MOVE" =>
                     \A k \in DOMAIN selectedIds' :
                        HasRect(rects, selectedIds'[k]) =>
                           selectedIds'[k] \in
                              {ghost'.items[i].id : i \in DOMAIN ghost'.items}
         /\ lastOp' \in WheelOps => PatchedIds(emitted') \subseteq RectIds(rects)
         /\ (lastOp' \in WheelOps /\ mode = "design"
               /\ ValidIds(selectedIds) # <<>>) =>
               \E isIncreasing \in BOOLEAN :
                  emitted' = WheelEvents(WheelUpdatesOf(ValidIds(selectedIds),
                                                        isIncreasing))]_vars

-----------------------------------------------------------------------------
(* Faults and selection validity                                            *)

\* C29: no gesture handler lets an exception propagate, whatever snapshot it
\* consumes (one without a grid config included) and whatever ghost it has
\* built: the handler that ran last completed or did nothing.
C29_NoExceptionPropagates == lastOp \notin Faults

\* C30: in every reachable state of provider and engine, after pointer
\* gestures, wheel events, rect-updates and data loads, every id of the
\* selection is the id of a rect of the current collection.
C30_SelectionValid ==
    \A k \in DOMAIN selectedIds : HasRect(rects, selectedIds[k])

-----------------------------------------------------------------------------
(* Nested pointer-down                                                      *)

GestureActive == ghost # Null \/ marquee # Null

\* C31: a pointer-down that arrives while a gesture is active (ghost or
\* marquee non-null, its pointer-up not yet seen) is ignored: it emits no
\* event and leaves the active ghost or marquee as it is.
C31_NoNestedGesture ==
    [][(lastOp' \in DownOps /\ GestureActive) =>
         /\ emitted' = <<>>
         /\ ghost' = ghost
         /\ marquee' = marquee]_vars

-----------------------------------------------------------------------------
(* Listener lifecycle                                                       *)

\* C32: after any sequence of connects and disconnects a connected engine
\* has exactly one registration of its pointer-move and of its pointer-up
\* handler on window and a disconnected engine has none; the registrations
\* are in place whenever a gesture has been started.
C32_ListenerLifecycle ==
    /\ attached => (listeners.mousemove = 1 /\ listeners.mouseup = 1)
    /\ ~attached => (listeners.mousemove = 0 /\ listeners.mouseup = 0)
    /\ lastOp = "down" => (listeners.mousemove = 1 /\ listeners.mouseup = 1)

\* the engine was connected, a gesture was started, the engine was
\* disconnected and connected again
C32_Witness ==
    /\ lastOp = "attach"
    /\ attached
    /\ detachedInGesture
    /\ listeners.mousemove = 1
    /\ listeners.mouseup = 1

\* C33: a disconnect while a ghost or marquee is active discards it, and no
\* rect-update or selection-change is emitted for that gesture afterwards,
\* also when the engine is connected again and a pointer-up arrives.
C33_DetachCancelsGesture ==
    [][/\ lastOp' = "detach" => (ghost' = Null /\ marquee' = Null)
       /\ (lastOp' \in {"up", "upIdle", "upFault"} /\ detachedInGesture)
             => emitted' = <<>>]_vars

\* the rects containing the cell of the press, topmost first
HitAtDown == LET g == getGridCoords(downMouse.x, downMouse.y)
             IN  hitRects(rects, g.gridX, g.gridY)

\* the step is the pointer-up of a click: a press on a rect body without
\* modifier, released without drag and without modifier, no wheel event in
\* between
PlainClickUp ==
    /\ ghost # Null
    /\ ghost.type = "MOVE"
    /\ ~ghost.wasDragged
    /\ ~downMod
    /\ ~restacked
    /\ lastOp' = "up"
    /\ ~upMod'

\* C34: on a cell inside n >= 2 rects of pairwise distinct z, a click (press
\* and release without modifier and without drag) made with an empty
\* selection leaves the topmost rect as the sole selected rect, and a click
\* made when the k-th rect from the top is the sole selected rect leaves the
\* next rect underneath as the sole selected rect, the topmost after the
\* lowest: repeated clicks from an empty selection select each of the n rects
\* in turn, in descending z order. (The engine keeps nothing between two
\* gestures but the snapshot, so the n-th click of the sequence is the click
\* made with the selection the (n-1)-th left.)
C34_ClickThroughWholeStack ==
    [][(/\ PlainClickUp
        /\ Len(HitAtDown) >= 2
        /\ \A i, j \in DOMAIN HitAtDown :
              i # j => HitAtDown[i].z # HitAtDown[j].z) =>
          LET hit == HitAtDown
              n == Len(hit)
          IN  /\ ghost.originalSelectedIds = <<>> =>
                     selectedIds' = <<hit[1].id>>
              /\ \A k \in 1..n :
                     ghost.originalSelectedIds = <<hit[k].id>> =>
                        selectedIds' = <<hit[(k % n) + 1].id>>
    ]_vars

\* C35: the z carried by every entry of the rect-update a MOVE or RESIZE
\* gesture emits at pointer-up equals the z the rect has in the provider's
\* layout at that moment, so that applying the patch leaves a z set by a
\* wheel event during the gesture as the wheel event set it.
C35_DragKeepsConcurrentZ ==
    [][(/\ lastOp' = "up"
        /\ ghost # Null
        /\ emitted' # <<>>
        /\ IsRectUpdate(emitted'[1])) =>
          \A k \in DOMAIN emitted'[1].payload :
             LET u == emitted'[1].payload[k]
             IN  HasRect(rects, u.id) =>
                    /\ u.rect.z = RectOf(rects, u.id).z
                    /\ RectOf(rects', u.id).z = RectOf(rects, u.id).z
    ]_vars

\* the step is a wheel event of direction isIncreasing that emits a
\* rect-update
WheelEmits(isIncreasing) ==
    /\ lastOp' = "wheel"
    /\ emitted' = WheelEvents(WheelUpdates(isIncreasing))

\* the selected rects of the anchor's stack, lowest z first, before the step
SelectedOfStack ==
    selectedInStack(stackRects(rects, RectOf(rects, selectedIds[1])),
                    selectedIds)

\* the rect the selection is swapped with: the stack's next rect above the
\* highest selected one (increase), below the lowest selected one (decrease)
Neighbour(isIncreasing) ==
    LET stack == stackRects(rects, RectOf(rects, selectedIds[1]))
        inStack == SelectedOfStack
    IN  IF isIncreasing
        THEN stack[FindIndex(stack, inStack[Len(inStack)].id) + 1]
        ELSE stack[FindIndex(stack, inStack[1].id) - 1]

\* C36: after a wheel event with deltaY > 0 that emits a rect-update, every
\* selected rect of the anchor's overlapping stack has a z strictly greater
\* than the neighbour it was swapped with; after one with deltaY <= 0 that
\* emits a rect-update, a z strictly smaller than that neighbour, whatever
\* the z values were (zeros and ties included).
C36_StrictlyPastNeighbour ==
    [][\A isIncreasing \in BOOLEAN :
          WheelEmits(isIncreasing) =>
             \A k \in DOMAIN SelectedOfStack :
                LET zSel == RectOf(rects', SelectedOfStack[k].id).z
                    zNb == RectOf(rects', Neighbour(isIncreasing).id).z
                IN  IF isIncreasing THEN zSel > zNb ELSE zSel < zNb
    ]_vars

\* C37: repeated wheel events in one direction with a fixed selection come to
\* a state where further events in that direction emit nothing. What a wheel
\* event emits depends on the snapshot alone (layout, selection, mode), so
\* convergence requires that no wheel event emits a rect-update that leaves
\* the layout as it was: after such an event the same event emits the same
\* rect-update again, without end.
C37_WheelConverges ==
    [][\A isIncreasing \in BOOLEAN :
          WheelEmits(isIncreasing) => rects' # rects
    ]_vars

\* C38: a RESIZE from the se handle commits a rect with the original origin
\* (x' = x and y' = y) for every grid delta, and a width that ends inside the
\* grid: x + w' <= columns.
C38_EastSouthKeepsOrigin ==
    [][(ResizeCommit /\ ghost.resizeDir = "se") =>
          LET orig == ghost.items[ItemIndex(ghost.items, ghost.primaryId)].originalRect
              c == Committed(ghost.primaryId)
          IN  /\ c.x = orig.x
              /\ c.y = orig.y
              /\ orig.x + c.w <= Cols
    ]_vars

\* C39: every rect-update emitted at the pointer-up of a MOVE gesture is
\* non-empty and has an entry for the gesture's primary id, the rect hit at
\* pointer-down, whatever the selection and the modifier keys were at
\* pointer-down.
C39_PrimaryIsDragged ==
    [][(/\ lastOp' = "up"
        /\ ghost # Null
        /\ ghost.type = "MOVE"
        /\ emitted' # <<>>
        /\ IsRectUpdate(emitted'[1])) =>
          /\ emitted'[1].payload # <<>>
          /\ \E k \in DOMAIN emitted'[1].payload :
                emitted'[1].payload[k].id = ghost.primaryId
    ]_vars

====
